---- MODULE Spec2Model ----
(***************************************************************************)
(* Magnetite: a 2D finite-element solver for linear-elastic problems.      *)
(*                                                                         *)
(* The module models one run of main.rs `entry`: mesher::run (input        *)
(* document, geometry, external mesher, .msh ingest, boundary stamping),   *)
(* solver::run (element kernels, assembly, partition, conjugate gradient,  *)
(* write-back, stress recovery), post_processor::csv_output and            *)
(* post_processor::pyplot.                                                 *)
(*                                                                         *)
(* Representation.                                                         *)
(*  - Option<T>: None is <<>>, Some(v) is <<v>>.                           *)
(*  - f64: an integer; every quantity the model computes is an integer     *)
(*    for the inputs it draws.  NaN is a reserved value that every         *)
(*    arithmetic operator propagates, as IEEE arithmetic does.             *)
(*  - Result<_, MagnetiteError>: a record [tag, kind, msg]; a panic        *)
(*    (unwrap/expect on a failure) is the tag "panic".                     *)
(***************************************************************************)
EXTENDS Integers, Sequences, FiniteSets, TLC

----------------------------------------------------------------------------
(* Bounds of the model *)

\* the greatest number of entries of `boundary_conditions` a document holds
MaxRules == 2

\* the iteration bound handed to the CG executor; the program's value is
\* 10^7 (solver.rs:17), scaled down so that the bound is reached
MAX_CG_ITER == 2

\* the greatest cost the CG executor reports, in units of 1e-4
MaxCost == 2

\* solver.rs:18, in units of 1e-4
TARGET_CG_COST == 1

\* solver.rs:16
DOF == 2

----------------------------------------------------------------------------
(* Option and f64 *)

None == <<>>
Some(v) == <<v>>
is_some(o) == o # <<>>
is_none(o) == o = <<>>
unwrap(o) == o[1]

NaN == 0 - 1000000
F64_MIN == 0 - 1000
F64_MAX == 0 + 1000

FAdd(a, b) == IF a = NaN \/ b = NaN THEN NaN ELSE a + b
FSub(a, b) == IF a = NaN \/ b = NaN THEN NaN ELSE a - b
FMul(a, b) == IF a = NaN \/ b = NaN THEN NaN ELSE a * b
\* a / b; 0/0 is NaN and x/0 is an infinity, which the model folds into NaN:
\* every quotient by zero of this program is next multiplied by zero
\* (solver.rs:234-237, the zero area) or squared and summed with a NaN
FDiv(a, b) == IF a = NaN \/ b = NaN \/ b = 0 THEN NaN ELSE a \div b

RECURSIVE FSum(_, _)
\* the sum f[1] + ... + f[n], left to right
FSum(f, n) == IF n = 0 THEN 0 ELSE FAdd(FSum(f, n - 1), f[n])

----------------------------------------------------------------------------
(* error.rs: MagnetiteError and the values a stage returns *)

Ok == [tag |-> "ok", kind |-> "", msg |-> ""]
Err(kind, msg) == [tag |-> "err", kind |-> kind, msg |-> msg]
Panic(msg) == [tag |-> "panic", kind |-> "", msg |-> msg]
Running == [tag |-> "running", kind |-> "", msg |-> ""]

is_err(r) == r.tag = "err"

----------------------------------------------------------------------------
(* The json crate's values, as far as the program looks at them *)

JAbsent == [k |-> "absent", v |-> 0]
JStr == [k |-> "str", v |-> 0]
JNum(v) == [k |-> "num", v |-> v]

has_key(j) == j.k # "absent"
as_f64(j) == IF j.k = "num" THEN Some(j.v) ELSE None

----------------------------------------------------------------------------
(* Inputs: the input document *)

MetaKeys ==
    {"material_elasticity", "poisson_ratio", "part_thickness",
     "characteristic_length_min", "characteristic_length_max"}

\* the numbers the metadata of every drawn document holds, where it holds
\* numbers: E = 4, nu = 0, t = 1 keep each stiffness entry an integer
MetaNum ==
    [material_elasticity |-> 4, poisson_ratio |-> 0, part_thickness |-> 1,
     characteristic_length_min |-> 1, characteristic_length_max |-> 2]

MetaJson(kinds) ==
    [key \in MetaKeys |->
        IF kinds[key] = "num" THEN JNum(MetaNum[key])
        ELSE IF kinds[key] = "str" THEN JStr ELSE JAbsent]

\* the documents a run may be given: any of the two top-level fields may be
\* missing and each metadata key is absent, a number or a string
InputDocs ==
    {[has_metadata |-> TRUE, has_boundary_conditions |-> b, metadata |-> MetaJson(kinds)] :
        b \in BOOLEAN, kinds \in [MetaKeys -> {"absent", "num", "str"}]}
    \cup
    {[has_metadata |-> FALSE, has_boundary_conditions |-> b,
      metadata |-> [key \in MetaKeys |-> JAbsent]] : b \in BOOLEAN}

RegionJson(xmin, xmax, ymin, ymax) ==
    [x_target_min |-> xmin, x_target_max |-> xmax,
     y_target_min |-> ymin, y_target_max |-> ymax]

TargetsJson(ux, uy, fx, fy) == [ux |-> ux, uy |-> uy, fx |-> fx, fy |-> fy]

RuleJson(region, targets) ==
    [has_region |-> TRUE, has_targets |-> TRUE, region |-> region, targets |-> targets]

NoRegion == RegionJson(JAbsent, JAbsent, JAbsent, JAbsent)
NoTargets == TargetsJson(JAbsent, JAbsent, JAbsent, JAbsent)

\* regions: everything; x < 1; x > 0; x_min > x_max; y_min > y_max; a string
RegionAll == NoRegion
RegionLeft == RegionJson(JAbsent, JNum(1), JAbsent, JAbsent)
RegionRight == RegionJson(JNum(0), JAbsent, JAbsent, JAbsent)
RegionBadX == RegionJson(JNum(1), JNum(0), JAbsent, JAbsent)
RegionBadY == RegionJson(JAbsent, JAbsent, JNum(2), JNum(1))
RegionStr == RegionJson(JStr, JAbsent, JAbsent, JAbsent)

\* the entries of `boundary_conditions` the whole-run specification draws
PipelineRuleJsons ==
    { RuleJson(RegionLeft, TargetsJson(JNum(0), JNum(0), JAbsent, JAbsent)),   \* pin
      RuleJson(RegionRight, TargetsJson(JAbsent, JAbsent, JNum(1), JNum(0))),  \* pull
      RuleJson(RegionRight, TargetsJson(JNum(1), JAbsent, JAbsent, JNum(1))),  \* push
      RuleJson(RegionAll, TargetsJson(JNum(0), JNum(0), JAbsent, JAbsent)),    \* pin all
      RuleJson(RegionAll, TargetsJson(JNum(0), JAbsent, JNum(1), JNum(0))),    \* over x
      RuleJson(RegionAll, TargetsJson(JAbsent, JNum(0), JAbsent, JAbsent)),    \* under x
      RuleJson(RegionBadX, TargetsJson(JNum(0), JNum(0), JAbsent, JAbsent)),
      RuleJson(RegionStr, TargetsJson(JNum(0), JNum(0), JNum(1), JAbsent)),
      [has_region |-> FALSE, has_targets |-> TRUE, region |-> NoRegion,
       targets |-> TargetsJson(JNum(0), JNum(0), JAbsent, JAbsent)] }

\* the entries the boundary-condition specification draws: every target
\* combination over the field values below, under each region
BcRegions == {RegionAll, RegionLeft, RegionBadX, RegionBadY, RegionStr}
BcDisplacements == {JAbsent, JNum(0)}
BcForces == {JAbsent, JNum(0), JNum(1)}
BcRuleJsons ==
    {RuleJson(region, TargetsJson(ux, uy, fx, fy)) :
        region \in BcRegions,
        ux \in BcDisplacements \cup {JStr}, uy \in BcDisplacements,
        fx \in BcForces, fy \in BcForces}
    \cup
    {[has_region |-> hr, has_targets |-> ht, region |-> NoRegion,
      targets |-> IF ht THEN TargetsJson(JNum(0), JNum(0), JAbsent, JAbsent) ELSE NoTargets] :
        hr \in BOOLEAN, ht \in BOOLEAN}

----------------------------------------------------------------------------
(* Inputs: the meshes the external mesher may hand back.  Element node     *)
(* indices are 0-based as in datatypes.rs; the node with index i is        *)
(* verts[i + 1].                                                           *)

Mesh(verts, elems) == [verts |-> verts, elems |-> elems]

\* one counter-clockwise triangle (scenario S1)
MeshS1 == Mesh(<< <<0, 0>>, <<1, 0>>, <<0, 1>> >>, << <<0, 1, 2>> >>)
\* the same triangle listed clockwise
MeshClockwise == Mesh(<< <<0, 0>>, <<1, 0>>, <<0, 1>> >>, << <<0, 2, 1>> >>)
\* three collinear nodes (scenario S3)
MeshCollinear == Mesh(<< <<0, 0>>, <<1, 0>>, <<2, 0>> >>, << <<0, 1, 2>> >>)
\* the unit square in two triangles (scenario S2)
MeshS2 ==
    Mesh(<< <<0, 0>>, <<1, 0>>, <<1, 1>>, <<0, 1>> >>, << <<0, 1, 2>>, <<0, 2, 3>> >>)
\* the unit square, the second triangle clockwise
MeshS2Clockwise ==
    Mesh(<< <<0, 0>>, <<1, 0>>, <<1, 1>>, <<0, 1>> >>, << <<0, 1, 2>>, <<0, 3, 2>> >>)

Meshes == {MeshS1, MeshClockwise, MeshCollinear, MeshS2, MeshS2Clockwise}

----------------------------------------------------------------------------
(* Inputs: geom.msh as gmsh writes it (MSH 4.1).  $Nodes holds entity      *)
(* blocks, each with its node tags and then as many coordinate lines;      *)
(* $Elements holds entity blocks, each with the dimension of its entity,   *)
(* its element type and one line <<elementTag, nodeTag, ...>> per element. *)

\* the greatest number of entity blocks of $Nodes
MaxNodeBlocks == 2

\* the coordinates of the node with tag t: the corners of the unit square
MshCoords == << <<0, 0>>, <<1, 0>>, <<1, 1>>, <<0, 1>> >>

CoordOf(tag) == IF tag <= Len(MshCoords) THEN MshCoords[tag] ELSE <<2, 2>>

\* the orders in which a file lists the tags 1..N
TagOrders ==
    {order \in [1..Len(MshCoords) -> 1..Len(MshCoords)] :
        \A i, j \in DOMAIN order : i # j => order[i] # order[j]}

\* a file whose tags are not 1..N: MSH 4.1 allows sparse tags
SparseTagOrder == <<1, 2, 3, 5>>

RECURSIVE Segments(_, _, _)
\* the blocks <<first, last>> that the positions lo..n fall into when a block
\* ends at each position of `cuts`
Segments(lo, n, cuts) ==
    IF lo > n THEN <<>>
    ELSE LET hi == CHOOSE c \in (cuts \cup {n}) :
                        c >= lo /\ \A d \in (cuts \cup {n}) : d >= lo => c <= d
         IN  <<<<lo, hi>>>> \o Segments(hi + 1, n, cuts)

NodeBlock(order, seg) ==
    [tags |-> [i \in 1..(seg[2] - seg[1] + 1) |-> order[seg[1] + i - 1]],
     coords |-> [i \in 1..(seg[2] - seg[1] + 1) |-> CoordOf(order[seg[1] + i - 1])]]

NodeBlocks(order, cuts) ==
    LET segs == Segments(1, Len(order), cuts)
    IN  [b \in 1..Len(segs) |-> NodeBlock(order, segs[b])]

\* the $Nodes sections: every order of the tags, cut into at most
\* MaxNodeBlocks blocks
NodeSections ==
    {NodeBlocks(order, cuts) :
        order \in TagOrders \cup {SparseTagOrder},
        cuts \in {c \in SUBSET (1..(Len(MshCoords) - 1)) : Cardinality(c) < MaxNodeBlocks}}

ElementBlock(entity_dim, element_type, lines) ==
    [entity_dim |-> entity_dim, element_type |-> element_type, elements |-> lines]

\* gmsh element types: 15 a point, 1 a line, 2 a triangle, 3 a quadrangle
PointBlock == ElementBlock(0, 15, << <<1, 1>> >>)
LineBlock == ElementBlock(1, 1, << <<2, 1, 2>>, <<3, 2, 3>> >>)
TriBlock == ElementBlock(2, 2, << <<4, 1, 2, 3>>, <<5, 1, 3, 4>> >>)
TriBlockA == ElementBlock(2, 2, << <<4, 1, 2, 3>> >>)
TriBlockB == ElementBlock(2, 2, << <<5, 1, 3, 4>> >>)
QuadBlock == ElementBlock(2, 3, << <<6, 1, 2, 3, 4>> >>)

\* the $Elements sections
ElementSections ==
    { <<TriBlock>>, <<LineBlock, TriBlock>>, <<PointBlock, LineBlock, TriBlockA, TriBlockB>>,
      <<LineBlock>>, <<LineBlock, QuadBlock>>, <<TriBlockA, QuadBlock>> }

MshFile(node_blocks, element_blocks) ==
    [node_blocks |-> node_blocks, element_blocks |-> element_blocks]

\* the files parse_mesh is checked on
MshFiles == {MshFile(ns, es) : ns \in NodeSections, es \in ElementSections}

\* the file that holds the mesh `mesh`: the node with index i has tag i + 1,
\* the boundary lines come first, the triangles of the surface after them
MshOf(mesh) ==
    MshFile(<< [tags |-> [i \in 1..Len(mesh.verts) |-> i], coords |-> mesh.verts] >>,
            << LineBlock,
               ElementBlock(2, 2,
                    [i \in 1..Len(mesh.elems) |->
                        <<i>> \o [k \in 1..3 |-> mesh.elems[i][k] + 1]]) >>)

----------------------------------------------------------------------------
(* Inputs: geom.msh line by line, as split("\n") hands it to the reader.   *)
(* A line of text is the sequence of its pieces, so that starts_with is a  *)
(* test on the first piece; a line of numbers is the sequence of them.     *)

TextLine(pieces) == [k |-> "text", v |-> pieces]
NumLine(numbers) == [k |-> "nums", v |-> numbers]
\* the file ends with a line break: the last piece of the split is empty
EmptyLine == TextLine(<<>>)

RECURSIVE Concat(_)
Concat(seqs) == IF seqs = <<>> THEN <<>> ELSE Head(seqs) \o Concat(Tail(seqs))

\* an entity block of $Nodes: entityDim entityTag parametric numNodesInBlock,
\* the tags, then the coordinates
NodeBlockLines(block) ==
    << NumLine(<<2, 1, 0, Len(block.tags)>>) >>
    \o [i \in 1..Len(block.tags) |-> NumLine(<<block.tags[i]>>)]
    \o [i \in 1..Len(block.coords) |-> NumLine(block.coords[i] \o <<0>>)]

\* an entity block of $Elements: entityDim entityTag elementType
\* numElementsInBlock, then one line per element
ElementBlockLines(block) ==
    << NumLine(<<block.entity_dim, 1, block.element_type, Len(block.elements)>>) >>
    \o [i \in 1..Len(block.elements) |-> NumLine(block.elements[i])]

CountOf(blocks, field) == Len(Concat([b \in 1..Len(blocks) |-> blocks[b][field]]))

\* $Nodes: numEntityBlocks numNodes minNodeTag maxNodeTag, then the blocks
NodesSection(node_blocks) ==
    << TextLine(<<"$Node", "s">>),
       NumLine(<<Len(node_blocks), CountOf(node_blocks, "tags"), 1,
                 CountOf(node_blocks, "tags")>>) >>
    \o Concat([b \in 1..Len(node_blocks) |-> NodeBlockLines(node_blocks[b])])
    \o << TextLine(<<"$End", "Nodes">>) >>

ElementsSection(element_blocks) ==
    << TextLine(<<"$Elements">>),
       NumLine(<<Len(element_blocks), CountOf(element_blocks, "elements"), 1,
                 CountOf(element_blocks, "elements")>>) >>
    \o Concat([b \in 1..Len(element_blocks) |-> ElementBlockLines(element_blocks[b])])
    \o << TextLine(<<"$End", "Elements">>) >>

\* version file-type data-size
MeshFormatSection ==
    << TextLine(<<"$MeshFormat">>), NumLine(<<4, 0, 8>>), TextLine(<<"$End", "MeshFormat">>) >>

\* the counts of points, curves, surfaces and volumes, then a line per
\* entity; the lines are chosen to read as an entity block of one node
EntitiesSection ==
    << TextLine(<<"$Entities">>), NumLine(<<1, 0, 1, 0>>),
       NumLine(<<2, 1, 0, 1>>), NumLine(<<1>>), NumLine(<<1, 1, 0>>),
       TextLine(<<"$End", "Entities">>) >>

\* a section the reader has no name for; its lines read as an entity block
\* of one element
PhysicalNamesSection ==
    << TextLine(<<"$PhysicalNames">>), NumLine(<<1>>),
       NumLine(<<2, 1, 2, 1>>), NumLine(<<7, 1, 2, 3>>),
       TextLine(<<"$End", "PhysicalNames">>) >>

\* a post-processing view: the number of string tags, then a string
NodeDataSection ==
    << TextLine(<<"$Node", "Data">>), NumLine(<<1>>), TextLine(<<"view">>),
       NumLine(<<1>>), NumLine(<<0>>), TextLine(<<"$End", "NodeData">>) >>

MshLayouts == {"plain", "physical_names", "node_data"}

MshLines(file, layout) ==
    MeshFormatSection
    \o (IF layout = "physical_names" THEN PhysicalNamesSection ELSE <<>>)
    \o EntitiesSection
    \o NodesSection(file.node_blocks)
    \o ElementsSection(file.element_blocks)
    \o (IF layout = "node_data" THEN NodeDataSection ELSE <<>>)
    \o << EmptyLine >>

\* the files the line reader is checked on
MshLineFiles ==
    {MshLines(MshFile(NodeBlocks(order, cuts), es), layout) :
        order \in {<<1, 2, 3, 4>>, <<3, 1, 4, 2>>},
        cuts \in {{}, {2}},
        es \in {<<LineBlock, TriBlock>>, <<PointBlock, LineBlock, TriBlockA, TriBlockB>>},
        layout \in MshLayouts}

----------------------------------------------------------------------------
(* Inputs: the vertex containers build_geo is checked on.  The first is    *)
(* the outer polygon, the others the holes; a csv file that holds its      *)
(* header line and nothing else gives a container without vertices.        *)

\* the greatest number of holes
MaxHoles == 2

GeoPolygons ==
    { <<>>,
      << <<1, 1>>, <<2, 2>> >>,
      << <<0, 0>>, <<4, 0>>, <<0, 4>> >>,
      << <<0, 0>>, <<4, 0>>, <<4, 4>>, <<0, 4>> >> }

GeoContainers == UNION {[1..n -> GeoPolygons] : n \in 0..(MaxHoles + 1)}

----------------------------------------------------------------------------
(* Inputs: the svg document, as far as parse_svg looks at it: its          *)
(* polyline, polygon and rect elements in document order.  An attribute    *)
(* that holds a number is a JNum, one that holds anything else a JStr; an  *)
(* id is a sequence of pieces of text.                                     *)

\* the greatest number of polyline, polygon and rect elements of a document
MaxRegions == 3

SvgPolyline(tag, id, parent_id, points) ==
    [tag |-> tag, id |-> id, parent_id |-> parent_id, points |-> points,
     x |-> JAbsent, y |-> JAbsent, width |-> JAbsent, height |-> JAbsent]

SvgRect(id, parent_id, x, y, width, height) ==
    [tag |-> "rect", id |-> id, parent_id |-> parent_id, points |-> None,
     x |-> x, y |-> y, width |-> width, height |-> height]

\* a 4 x 4 square, two of its corners listed twice
OuterPoints ==
    Some(<<JNum(0), JNum(0), JNum(4), JNum(0), JNum(4), JNum(4), JNum(4), JNum(4),
           JNum(0), JNum(4), JNum(0), JNum(4)>>)
HolePoints == Some(<<JNum(1), JNum(1), JNum(2), JNum(1), JNum(1), JNum(2)>>)
BadPoints == Some(<<JNum(0), JNum(0), JStr, JNum(0)>>)

SvgRegions ==
    { SvgPolyline("polygon", Some(<<"OUTER">>), None, OuterPoints),
      SvgPolyline("polyline", Some(<<" ", "OUTER", "_2", " ">>), Some(<<"layer">>), HolePoints),
      SvgPolyline("polygon", None, Some(<<"INNER", "_group">>), HolePoints),
      SvgPolyline("polyline", Some(<<"layer", "OUTER">>), Some(<<"OUTER">>), HolePoints),
      SvgPolyline("polygon", None, None, HolePoints),
      SvgPolyline("polyline", Some(<<"OUTER">>), None, BadPoints),
      SvgRect(Some(<<"INNER">>), None, JNum(1), JNum(1), JNum(1), JNum(1)),
      SvgRect(None, Some(<<"OUTER">>), JAbsent, JAbsent, JNum(4), JNum(4)),
      SvgRect(Some(<<"INNER", "2">>), None, JNum(2), JNum(2), JAbsent, JNum(1)) }

RECURSIVE SeqsUpTo(_, _)
\* the sequences of at most n members of S
SeqsUpTo(S, n) ==
    IF n = 0 THEN {<<>>}
    ELSE SeqsUpTo(S, n - 1) \cup {Append(s, e) : s \in {t \in SeqsUpTo(S, n - 1) : Len(t) = n - 1}, e \in S}

\* the documents parse_svg is checked on
SvgDocs == SeqsUpTo(SvgRegions, MaxRegions)

----------------------------------------------------------------------------
(* State *)

VARIABLES
    pc,                 \* the stage or phase `entry` executes next
    trace,              \* the stages and phases started so far, in order
    stage_ret,          \* what the last finished stage returned
    result,             \* what `entry` returned (Running until it returns)
    exit_code,          \* Option: the exit status of the process
    input_json,         \* Option: the parsed input document
    model_metadata,     \* Option: ModelMetadata
    gmsh,               \* how the external mesher ended
    msh_file,           \* whether geom.msh exists
    msh,                \* Option: what gmsh wrote to geom.msh
    svg,                \* Option: the svg document parse_svg was given
    vertices,           \* Vec<Vec<Vertex>> of mesher::run
    reader,             \* the locals of the line loop of parse_mesh
    geo,                \* Option: what build_geo wrote to geom.geo
    nodes,              \* Vec<Node>
    elements,           \* Vec<Element>
    rule_json,          \* Option: the boundary_conditions entry read last
    rules,              \* Vec<BoundaryRule> of apply_boundary_conditions
    element_stiffness_matrices,
    total_stiffness_matrix,
    sys,                \* the locals of solver::solve
    cg,                 \* the state of the CG executor
    files,              \* nodes.csv and elements.csv
    skip,               \* args.skip
    plot                \* how the external plotter ended

ctlVars == <<pc, trace, stage_ret, result, exit_code>>
inputVars ==
    <<input_json, model_metadata, gmsh, msh_file, msh, svg, vertices, rule_json, rules, skip,
      reader, geo>>
meshVars == <<nodes, elements>>
solverVars == <<element_stiffness_matrices, total_stiffness_matrix, sys, cg>>
outVars == <<files, plot>>
vars == <<ctlVars, inputVars, meshVars, solverVars, outVars>>

NoFiles == [nodes_csv |-> "absent", elements_csv |-> "absent"]
NoSys == [set |-> FALSE]
NoReader == [open |-> FALSE]
NoCg == [started |-> FALSE]

Enter(stage) ==
    IF trace # <<>> /\ trace[Len(trace)] = stage THEN trace ELSE Append(trace, stage)

\* main.rs:43-51 and the `?` of main.rs:54-76: a stage's Err is returned
\* from `entry` as it is and `main` exits with status 1; a panic unwinds
\* through `main` and the process ends with the runtime's status 101
ExitCodeOf(r) == IF r.tag = "ok" THEN 0 ELSE IF r.tag = "err" THEN 1 ELSE 101

\* a variant of question_mark that converts the error on the way up, as a
\* map_err to the caller's kind would
question_mark_rewraps(r) == IF r.tag = "err" THEN Err("Solver", r.msg) ELSE r

\* the `?` of main.rs:61,64,69,72 and mesher.rs:936-964: the error type of
\* the stage is that of the caller, so the value is handed up as it is
question_mark(r) == r

Return(stage, r) ==
    /\ trace' = Enter(stage)
    /\ stage_ret' = r
    /\ result' = question_mark(r)
    /\ exit_code' = Some(ExitCodeOf(question_mark(r)))
    /\ pc' = "exit"

\* mesher.rs:936-964: the order of the calls of mesher::run
mesher_run_next(stage) ==
    CASE stage = "load_input_file" -> "parse_input_metadata"
      [] stage = "parse_input_metadata" -> "geometry"
      [] stage = "geometry" -> "compute_mesh"
      [] stage = "compute_mesh" -> "parse_mesh"
      [] stage = "parse_mesh" -> "apply_boundary_conditions"

\* a variant of solver_run_next in which solver::run returns after `solve`,
\* the stress pass left out
solver_run_next_skips_stress(phase) ==
    CASE phase = "kernels" -> "assembly"
      [] phase = "assembly" -> "partition"
      [] phase = "partition" -> "cg"
      [] phase = "cg" -> "write_back"
      [] phase = "write_back" -> "csv_output"

\* solver.rs:495-530 and 376-440: the order of the phases of solver::run,
\* the middle four being those of `solve`
solver_run_next(phase) ==
    CASE phase = "kernels" -> "assembly"
      [] phase = "assembly" -> "partition"
      [] phase = "partition" -> "cg"
      [] phase = "cg" -> "write_back"
      [] phase = "write_back" -> "stress"

\* main.rs:58-72: the order of the calls of `entry`; solver::run starts with
\* the element kernels and ends with the stress pass
entry_next(stage) ==
    CASE stage = "apply_boundary_conditions" -> "kernels"
      [] stage = "stress" -> "csv_output"
      [] stage = "csv_output" -> "pyplot"

\* the stage returned Ok and the caller goes on with `next`
Continue(stage, next) ==
    /\ trace' = Enter(stage)
    /\ stage_ret' = Ok
    /\ pc' = next
    /\ UNCHANGED <<result, exit_code>>

----------------------------------------------------------------------------
(* mesher.rs: the input document *)

\* mesher.rs:706-753; `io` is how reading and parsing the file went
load_input_file(io, doc) ==
    IF io = "unreadable" THEN Err("Input", "Unable to open input file")
    ELSE IF io = "bad_json" THEN Err("Input", "Error in input file json")
    ELSE IF ~doc.has_metadata THEN Err("Input", "Input json missing metadata field")
    ELSE IF ~doc.has_boundary_conditions
        THEN Err("Input", "Input json missing boundary_conditions field in metadata section")
    ELSE IF ~has_key(doc.metadata["part_thickness"])
        THEN Err("Input", "Input json missing part_thickness field in metadata section")
    ELSE IF ~has_key(doc.metadata["material_elasticity"])
        THEN Err("Input", "Input json missing material_elasticity field in metadata section")
    ELSE IF ~has_key(doc.metadata["poisson_ratio"])
        THEN Err("Input", "Input json missing poisson_ratio field in metadata section")
    ELSE Ok

\* mesher.rs:762-801
parse_input_metadata(doc) ==
    LET youngs_modulus == as_f64(doc.metadata["material_elasticity"])
        part_thickness == as_f64(doc.metadata["part_thickness"])
        poisson_ratio == as_f64(doc.metadata["poisson_ratio"])
        characteristic_length_min == as_f64(doc.metadata["characteristic_length_min"])
        characteristic_length_max == as_f64(doc.metadata["characteristic_length_max"])
    IN  IF is_none(youngs_modulus)
            THEN Err("Input", "Input json missing material elasticity")
        ELSE IF is_none(poisson_ratio)
            THEN Err("Input", "Input json missing poisson ratio")
        ELSE IF is_none(characteristic_length_min)
            THEN Err("Input", "Input json missing minimum characteristic length")
        ELSE IF is_none(characteristic_length_max)
            THEN Err("Input", "Input json missing maximum characteristic length")
        ELSE IF is_none(part_thickness)
            THEN Panic("called Option::unwrap() on a None value")
        ELSE Ok

ModelMetadata(doc) ==
    [youngs_modulus |-> unwrap(as_f64(doc.metadata["material_elasticity"])),
     poisson_ratio |-> unwrap(as_f64(doc.metadata["poisson_ratio"])),
     part_thickness |-> unwrap(as_f64(doc.metadata["part_thickness"])),
     characteristic_length_min |-> unwrap(as_f64(doc.metadata["characteristic_length_min"])),
     characteristic_length_max |-> unwrap(as_f64(doc.metadata["characteristic_length_max"]))]

LoadInputFile ==
    /\ pc = "load_input_file"
    /\ \E io \in {"ok", "unreadable", "bad_json"} :
        IF io = "ok"
        THEN \E doc \in InputDocs :
                LET r == load_input_file(io, doc)
                IN  /\ input_json' = Some(doc)
                    /\ IF r = Ok
                       THEN Continue("load_input_file", mesher_run_next("load_input_file"))
                       ELSE Return("load_input_file", r)
        ELSE /\ Return("load_input_file", load_input_file(io, None))
             /\ UNCHANGED input_json
    /\ UNCHANGED <<model_metadata, gmsh, msh_file, msh, svg, vertices, rule_json, rules, skip, reader, geo>>
    /\ UNCHANGED <<meshVars, solverVars, outVars>>

ParseInputMetadata ==
    /\ pc = "parse_input_metadata"
    /\ LET r == parse_input_metadata(unwrap(input_json))
       IN  IF r = Ok
           THEN /\ model_metadata' = Some(ModelMetadata(unwrap(input_json)))
                /\ Continue("parse_input_metadata", mesher_run_next("parse_input_metadata"))
           ELSE /\ UNCHANGED model_metadata
                /\ Return("parse_input_metadata", r)
    /\ UNCHANGED <<input_json, gmsh, msh_file, msh, svg, vertices, rule_json, rules, skip, reader, geo>>
    /\ UNCHANGED <<meshVars, solverVars, outVars>>

----------------------------------------------------------------------------
(* mesher.rs: geometry and the external mesher *)

\* what the loop over the geometry files (mesher.rs:941-952) ends with:
\* parse_svg and parse_csv return Input errors or panic on a malformed file
GeometryOutcomes ==
    { Ok,
      Err("Input", "Unrecognized geometry filetype"),
      Err("Input", "Unable to open svg file"),
      Err("Input", "No OUTER geometry"),
      Err("Input", "Multiple OUTER geometries in SVG"),
      Err("Input", "Unable to open csv file"),
      Err("Input", "Error in csv file: Missing x and/or y field"),
      Panic("Non-float value in svg points") }

ParseGeometry ==
    /\ pc = "geometry"
    /\ \E r \in GeometryOutcomes :
        IF r = Ok THEN Continue("geometry", mesher_run_next("geometry")) ELSE Return("geometry", r)
    /\ UNCHANGED <<inputVars, meshVars, solverVars, outVars>>

----------------------------------------------------------------------------
(* mesher.rs: parse_svg *)

\* str::trim on an id: the white space at its two ends goes
RECURSIVE trim(_)
trim(id) ==
    IF id = <<>> THEN id
    ELSE IF id[1] = " " THEN trim(Tail(id))
    ELSE IF id[Len(id)] = " " THEN trim(SubSeq(id, 1, Len(id) - 1))
    ELSE id

starts_with(id, prefix) == id # <<>> /\ id[1] = prefix

\* mesher.rs:96-106 and 206-216: the id of the element, or else of its parent
item_id(region) == IF is_some(region.id) THEN region.id ELSE region.parent_id

RECURSIVE pair_points(_, _, _, _)
\* mesher.rs:69-93: the vertices of a polyline from the numbers of its points
\* attribute, from the i-th number on; y is inverted, a vertex already in
\* the list or closer to the last one than min_element_length is left out
pair_points(points_nopair, i, points, min_element_length) ==
    IF i >= Len(points_nopair) THEN [ret |-> Ok, points |-> points]
    ELSE IF i + 1 >= Len(points_nopair)
        THEN [ret |-> Panic("index out of bounds"), points |-> points]
    ELSE LET vertex == <<points_nopair[i + 1], 0 - points_nopair[i + 2]>>
             last_vertex == points[Len(points)]
         IN  IF \E k \in 1..Len(points) : points[k] = vertex
                THEN pair_points(points_nopair, i + 2, points, min_element_length)
             ELSE IF /\ points # <<>>
                     /\ (last_vertex[1] - vertex[1]) * (last_vertex[1] - vertex[1])
                        + (last_vertex[2] - vertex[2]) * (last_vertex[2] - vertex[2])
                            < min_element_length * min_element_length
                THEN pair_points(points_nopair, i + 2, points, min_element_length)
             ELSE pair_points(points_nopair, i + 2, Append(points, vertex), min_element_length)

\* mesher.rs:51-93
polyline_points(polyline, min_element_length) ==
    IF is_none(polyline.points)
        THEN [ret |-> Err("Input", "Error in svg file. No points in polyline element"),
              points |-> <<>>]
    ELSE IF \E k \in 1..Len(unwrap(polyline.points)) : unwrap(polyline.points)[k].k # "num"
        THEN [ret |-> Panic("Non-float value in svg points"), points |-> <<>>]
    ELSE pair_points([k \in 1..Len(unwrap(polyline.points)) |-> unwrap(polyline.points)[k].v],
                     0, <<>>, min_element_length)

\* mesher.rs:143-203
rect_vertices(rect) ==
    LET x == IF has_key(rect.x) THEN rect.x.v ELSE 0
        y == IF has_key(rect.y) THEN rect.y.v ELSE 0
        width == rect.width.v
        height == rect.height.v
    IN  IF rect.x.k = "str" \/ rect.y.k = "str"
            THEN [ret |-> Panic("Non-float value in svg points at node"), points |-> <<>>]
        ELSE IF ~has_key(rect.width)
            THEN [ret |-> Err("Input", "Error in svg file. No width definition in rectangle"),
                  points |-> <<>>]
        ELSE IF rect.width.k = "str"
            THEN [ret |-> Panic("Non-float value in svg points"), points |-> <<>>]
        ELSE IF ~has_key(rect.height)
            THEN [ret |-> Err("Input", "Error in svg file. No height definition in rectangle"),
                  points |-> <<>>]
        ELSE IF rect.height.k = "str"
            THEN [ret |-> Panic("Non-float value in svg points"), points |-> <<>>]
        ELSE [ret |-> Ok,
              points |-> << <<x, 0 - y>>, <<x + width, 0 - y>>,
                            <<x + width, 0 - y - height>>, <<x, 0 - y - height>> >>]

\* a variant of save_points in which a second OUTER geometry replaces the first
save_points_replaces_outer(vertex_containers, id, points) ==
    IF is_none(id)
        THEN [ret |-> Err("Input", "Error in svg file. Missing id field on polyline"),
              vertex_containers |-> vertex_containers]
    ELSE IF starts_with(trim(unwrap(id)), "INNER")
        THEN [ret |-> Ok, vertex_containers |-> Append(vertex_containers, points)]
    ELSE IF starts_with(trim(unwrap(id)), "OUTER")
        THEN [ret |-> Ok, vertex_containers |-> [vertex_containers EXCEPT ![1] = points]]
    ELSE [ret |-> Ok, vertex_containers |-> vertex_containers]

\* mesher.rs:95-133 and 205-243: the points go to the container their id names
save_points(vertex_containers, id, points) ==
    IF is_none(id)
        THEN [ret |-> Err("Input", "Error in svg file. Missing id field on polyline"),
              vertex_containers |-> vertex_containers]
    ELSE IF starts_with(trim(unwrap(id)), "INNER")
        THEN [ret |-> Ok, vertex_containers |-> Append(vertex_containers, points)]
    ELSE IF starts_with(trim(unwrap(id)), "OUTER")
        THEN IF vertex_containers[1] = <<>>
             THEN [ret |-> Ok, vertex_containers |-> [vertex_containers EXCEPT ![1] = points]]
             ELSE [ret |-> Err("Input", "Multiple OUTER geometries in SVG"),
                   vertex_containers |-> vertex_containers]
    ELSE [ret |-> Ok, vertex_containers |-> vertex_containers]

\* the vertices of one element
region_points(region, min_element_length) ==
    IF region.tag = "rect" THEN rect_vertices(region)
    ELSE polyline_points(region, min_element_length)

RECURSIVE read_regions(_, _, _, _)
\* mesher.rs:50-134 and 143-244: the elements from the k-th on
read_regions(regions, k, vertex_containers, min_element_length) ==
    IF k > Len(regions) THEN [ret |-> Ok, vertex_containers |-> vertex_containers]
    ELSE LET read == region_points(regions[k], min_element_length)
             saved == save_points(vertex_containers, item_id(regions[k]), read.points)
         IN  IF read.ret # Ok THEN [ret |-> read.ret, vertex_containers |-> vertex_containers]
             ELSE IF saved.ret # Ok THEN saved
             ELSE read_regions(regions, k + 1, saved.vertex_containers, min_element_length)

IsPolyline(region) == region.tag \in {"polyline", "polygon"}
IsRect(region) == region.tag = "rect"

\* mesher.rs:26-249; `io` is how reading the file and parsing its xml went.
\* The polylines and polygons are read first, the rects after them
parse_svg(io, doc, min_element_length) ==
    IF io = "unreadable"
        THEN [ret |-> Err("Input", "Unable to open svg file"), vertex_containers |-> <<>>]
    ELSE IF io = "bad_xml"
        THEN [ret |-> Panic("called Result::unwrap() on an Err value"),
              vertex_containers |-> <<>>]
    ELSE LET read == read_regions(SelectSeq(doc, IsPolyline) \o SelectSeq(doc, IsRect),
                                  1, <<<<>>>>, min_element_length)
         IN  IF read.ret # Ok THEN [ret |-> read.ret, vertex_containers |-> <<>>]
             ELSE IF read.vertex_containers[1] = <<>>
                THEN [ret |-> Err("Input", "No OUTER geometry"), vertex_containers |-> <<>>]
             ELSE read

\* mesher.rs:941-944: the geometry file is an svg
ParseSvg(Docs) ==
    /\ pc = "geometry"
    /\ \E io \in {"ok", "unreadable", "bad_xml"}, doc \in Docs :
        LET parsed == parse_svg(io, doc, unwrap(model_metadata).characteristic_length_min)
        IN  /\ svg' = IF io = "ok" THEN Some(doc) ELSE None
            /\ IF parsed.ret = Ok
               THEN /\ vertices' = parsed.vertex_containers
                    /\ Continue("geometry", mesher_run_next("geometry"))
               ELSE /\ UNCHANGED vertices
                    /\ Return("geometry", parsed.ret)
    /\ UNCHANGED <<input_json, model_metadata, gmsh, msh_file, msh, rule_json, rules, skip, reader, geo>>
    /\ UNCHANGED <<meshVars, solverVars, outVars>>

----------------------------------------------------------------------------
(* mesher.rs: build_geo.  The file is kept as the statements it holds: its *)
(* Point, Line and Line Loop statements in the order they are written, and *)
(* the loops of its Plane Surface.  `polygon` is the container a statement *)
(* was written for (0-based, as in the comments of the file).              *)

\* usize::MAX, the value 0 - 1 wraps to.  The model writes the greatest
\* number of the model checker for it; what matters is that no point or
\* line of a file has it
USIZE_MAX == 2147483647

RECURSIVE inner_offsets(_, _)
\* mesher.rs:335-358: inner_offsets[i] for i < n (0-based): 0 for the outer
\* container, then the number of points written before container i
inner_offsets(vertices_containers, n) ==
    IF n = 0 THEN <<>>
    ELSE IF n = 1 THEN <<0>>
    ELSE LET before == inner_offsets(vertices_containers, n - 1)
         IN  before \o << (IF n = 2 THEN 0 ELSE before[n - 1])
                          + Len(vertices_containers[n - 1]) >>

\* mesher.rs:327-358: one Point statement per vertex
geo_points(vertices_containers) ==
    LET offsets == inner_offsets(vertices_containers, Len(vertices_containers))
    IN  Concat([c \in 1..Len(vertices_containers) |->
            [i \in 1..Len(vertices_containers[c]) |->
                [id |-> (i - 1) + offsets[c],
                 x |-> vertices_containers[c][i][1],
                 y |-> vertices_containers[c][i][2],
                 polygon |-> c - 1]]])

\* mesher.rs:389: vertices.len() + point_offset - 1 in usize
closing_line_id(len, point_offset) ==
    IF len + point_offset = 0 THEN USIZE_MAX ELSE len + point_offset - 1

\* mesher.rs:363-396: for each container the lines between consecutive
\* points, then the line from the last point back to point_offset
geo_lines(vertices_containers) ==
    LET offsets == inner_offsets(vertices_containers, Len(vertices_containers))
    IN  Concat([c \in 1..Len(vertices_containers) |->
            LET len == Len(vertices_containers[c])
                point_offset == offsets[c]
            IN  [i \in 1..(IF len = 0 THEN 0 ELSE len - 1) |->
                    [id |-> i + point_offset - 1,
                     from |-> i + point_offset - 1,
                     to |-> i + point_offset,
                     polygon |-> c - 1]]
                \o << [id |-> closing_line_id(len, point_offset),
                       from |-> closing_line_id(len, point_offset),
                       to |-> point_offset,
                       polygon |-> c - 1] >>])

\* mesher.rs:399-424: Line Loop(i + 1) lists i + point_offset for each i
\* below the number of vertices of the container
geo_loops(vertices_containers) ==
    LET offsets == inner_offsets(vertices_containers, Len(vertices_containers))
    IN  [c \in 1..Len(vertices_containers) |->
            [id |-> c,
             lines |-> [i \in 1..Len(vertices_containers[c]) |-> (i - 1) + offsets[c]]]]

\* mesher.rs:430-455: the loops of Plane Surface(1), in the order written
geo_surface(vertices_containers) ==
    LET n == Len(vertices_containers)
        iter == IF n > 2 THEN [i \in 1..n |-> i - 1] ELSE [i \in 1..n |-> n - i]
    IN  [i \in 1..n |-> iter[i] + 1]

\* mesher.rs:319-476.  `created` is whether geom.geo could be created;
\* `wraps` is whether the build lets 0 - 1 wrap (release) or panics on it
\* (debug).  The subtraction of line 389 is below zero when the outer
\* container, or it and the ones after it, have no vertex
build_geo(vertices_containers, created, wraps) ==
    IF ~created THEN [ret |-> Panic("Failed to create .geo file")]
    ELSE IF vertices_containers = <<>> THEN [ret |-> Panic("index out of bounds")]
    ELSE IF vertices_containers[1] = <<>> /\ ~wraps
        THEN [ret |-> Panic("attempt to subtract with overflow")]
    ELSE [ret |-> Ok,
          points |-> geo_points(vertices_containers),
          lines |-> geo_lines(vertices_containers),
          loops |-> geo_loops(vertices_containers),
          surface |-> geo_surface(vertices_containers)]

\* mesher.rs:498-503: compute_mesh writes geom.geo
BuildGeo ==
    /\ pc = "compute_mesh"
    /\ geo = None
    /\ \E created \in BOOLEAN, wraps \in BOOLEAN :
        LET written == build_geo(vertices, created, wraps)
        IN  IF written.ret = Ok
            THEN /\ geo' = Some(written)
                 /\ UNCHANGED ctlVars
            ELSE /\ UNCHANGED geo
                 /\ Return("compute_mesh", written.ret)
    /\ UNCHANGED <<input_json, model_metadata, gmsh, msh_file, msh, svg, vertices,
                   rule_json, rules, skip, reader>>
    /\ UNCHANGED <<meshVars, solverVars, outVars>>

----------------------------------------------------------------------------
(* mesher.rs: compute_mesh *)

\* mesher.rs:486-524; `how` is how writing geom.geo and running gmsh went.
\* The exit status of gmsh is not looked at: whatever it is, compute_mesh
\* returns Ok, and geom.msh exists only if gmsh wrote it, which it may have
\* done before it ended with an error status
compute_mesh(how) ==
    IF how = "geo_not_created" THEN Panic("Failed to create .geo file")
    ELSE IF how = "spawn_failed" THEN Err("Mesher", "Gmsh failed")
    ELSE Ok

ComputeMesh ==
    /\ pc = "compute_mesh"
    /\ \E how \in {"ok", "nonzero_exit", "spawn_failed", "geo_not_created"} :
        /\ gmsh' = how
        /\ msh_file' \in (IF how = "ok" THEN {"present"}
                         ELSE IF how = "nonzero_exit" THEN {"present", "absent"}
                         ELSE {"absent"})
        /\ IF msh_file' = "present"
           THEN \E mesh \in Meshes : msh' = Some(MshOf(mesh))
           ELSE UNCHANGED msh
        /\ IF compute_mesh(how) = Ok
           THEN Continue("compute_mesh", mesher_run_next("compute_mesh"))
           ELSE Return("compute_mesh", compute_mesh(how))
    /\ UNCHANGED <<input_json, model_metadata, svg, vertices, rule_json, rules, skip, reader, geo>>
    /\ UNCHANGED <<meshVars, solverVars, outVars>>

----------------------------------------------------------------------------
(* mesher.rs: .msh ingest *)

\* mesher.rs:613-622: the node parse_mesh creates for one coordinate line
NewNode(v) ==
    [x |-> v[1], y |-> v[2], ux |-> None, uy |-> None, fx |-> Some(0), fy |-> Some(0)]

\* mesher.rs:665-668
NewElement(e) == [nodes |-> e, stress |-> None]

MeshNodes(mesh) == [i \in 1..Len(mesh.verts) |-> NewNode(mesh.verts[i])]
MeshElements(mesh) == [i \in 1..Len(mesh.elems) |-> NewElement(mesh.elems[i])]

RECURSIVE nodes_unordered(_)
\* mesher.rs:586-624: the nodes pushed for the blocks of $Nodes, in the order
\* of the file
nodes_unordered(node_blocks) ==
    IF node_blocks = <<>> THEN <<>>
    ELSE LET block == node_blocks[Len(node_blocks)]
         IN  nodes_unordered(SubSeq(node_blocks, 1, Len(node_blocks) - 1))
                \o [i \in 1..Len(block.coords) |-> NewNode(block.coords[i])]

RECURSIVE node_indexes(_)
\* mesher.rs:597-625: for each node pushed, its tag minus one
node_indexes(node_blocks) ==
    IF node_blocks = <<>> THEN <<>>
    ELSE LET block == node_blocks[Len(node_blocks)]
         IN  node_indexes(SubSeq(node_blocks, 1, Len(node_blocks) - 1))
                \o [i \in 1..Len(block.tags) |-> block.tags[i] - 1]

\* mesher.rs:661-668: the elements pushed for one block of $Elements
block_elements(block) ==
    IF block.entity_dim # 2 THEN <<>>
    ELSE [i \in 1..Len(block.elements) |->
            LET metadata == block.elements[i]
            IN  NewElement(<<metadata[2] - 1, metadata[3] - 1, metadata[4] - 1>>)]

RECURSIVE parse_elements(_)
\* mesher.rs:628-670: the elements pushed, in the order of the file
parse_elements(element_blocks) ==
    IF element_blocks = <<>> THEN <<>>
    ELSE parse_elements(SubSeq(element_blocks, 1, Len(element_blocks) - 1))
            \o block_elements(element_blocks[Len(element_blocks)])

\* what a slot of `nodes` holds between set_len (mesher.rs:680-682) and the
\* first write to it: anything
UninitNodes == {NewNode(<<0, 0>>), NewNode(<<NaN, NaN>>)}

\* a variant of order_nodes that keeps the nodes in the order of the file
order_nodes_file_order(indexes, unordered, uninit) ==
    IF \E j \in 1..Len(indexes) : indexes[j] >= Len(unordered)
    THEN [ret |-> Panic("index out of bounds"), nodes |-> <<>>]
    ELSE [ret |-> Ok, nodes |-> unordered]

\* mesher.rs:675-686: `nodes` gets the length of nodes_unordered, its slots
\* uninitialised, and nodes[idx] = node runs over the zip of node_indexes
\* and nodes_unordered: an idx past the end panics, a later write to a slot
\* replaces an earlier one, a slot never written keeps what it held
order_nodes(indexes, unordered, uninit) ==
    IF \E j \in 1..Len(indexes) : indexes[j] >= Len(unordered)
    THEN [ret |-> Panic("index out of bounds"), nodes |-> <<>>]
    ELSE [ret |-> Ok,
          nodes |-> [slot \in 1..Len(unordered) |->
                LET writers == {j \in 1..Len(indexes) : indexes[j] = slot - 1}
                IN  IF writers = {} THEN uninit
                    ELSE unordered[CHOOSE j \in writers : \A k \in writers : k <= j]]]

\* mesher.rs:534-697, the file opened and read
parse_mesh(file, uninit) ==
    LET ordered == order_nodes(node_indexes(file.node_blocks),
                               nodes_unordered(file.node_blocks), uninit)
    IN  [ret |-> ordered.ret, nodes |-> ordered.nodes,
         elements |-> parse_elements(file.element_blocks)]

\* mesher.rs:534-697
ParseMesh ==
    /\ pc = "parse_mesh"
    /\ IF msh_file = "absent"
       THEN /\ Return("parse_mesh", Err("Mesher", "Unable to open auto-generated mesh file"))
            /\ UNCHANGED <<meshVars, msh_file>>
       ELSE \E uninit \in UninitNodes :
            LET parsed == parse_mesh(unwrap(msh), uninit)
            IN  IF parsed.ret = Ok
                THEN /\ nodes' = parsed.nodes
                     /\ elements' = parsed.elements
                     /\ msh_file' = "absent"
                     /\ Continue("parse_mesh", mesher_run_next("parse_mesh"))
                ELSE /\ Return("parse_mesh", parsed.ret)
                     /\ UNCHANGED <<meshVars, msh_file>>
    /\ UNCHANGED <<input_json, model_metadata, gmsh, msh, svg, vertices, rule_json, rules, skip, reader, geo>>
    /\ UNCHANGED <<solverVars, outVars>>

----------------------------------------------------------------------------
(* mesher.rs: the line loop of parse_mesh, one action for each way a turn  *)
(* of `while let Some(line) = lines.next()` can go                         *)

\* mesher.rs:551-556: the locals before the first line.  pos counts the
\* lines taken from `lines`, turn is the index of the line the loop took
\* last; node_lines and element_lines keep, for each node and element
\* pushed, the index of the line it was read from
NewReader(file) ==
    [open |-> TRUE, done |-> FALSE, file |-> file, pos |-> 0, turn |-> 0,
     parser_state |-> "Limbo", parsed_section_metadata |-> FALSE,
     nodes_unordered |-> <<>>, node_indexes |-> <<>>, elements |-> <<>>,
     node_lines |-> <<>>, element_lines |-> <<>>]

line_is_empty(line) == line.k = "text" /\ line.v = <<>>

line_starts_with(line, prefix) == line.k = "text" /\ starts_with(line.v, prefix)

\* a variant of state_after_end_test that does not look for $End
state_without_end_test(parser_state, line) == parser_state

\* mesher.rs:563-565
state_after_end_test(parser_state, line) ==
    IF line_starts_with(line, "$End") THEN "Limbo" ELSE parser_state

\* mesher.rs:571-577
state_after_limbo(line) ==
    IF line_starts_with(line, "$Entities") THEN "Entities"
    ELSE IF line_starts_with(line, "$Node") THEN "Nodes"
    ELSE IF line_starts_with(line, "$Elements") THEN "Elements"
    ELSE "Limbo"

Least(S) == CHOOSE i \in S : \A j \in S : i <= j

NoneUnwrapped == Panic("called Option::unwrap() on a None value")

\* mesher.rs:586-625: the entity block whose first line is line h of the
\* file.  The tags are read first, then the coordinates, each with
\* lines.next().unwrap(); the first line that is missing or does not parse
\* ends the program
node_block(file, h) ==
    LET line == file[h]
    IN  IF line.k # "nums" THEN [ret |-> Panic("Unexpected non-int in mesh data")]
        ELSE IF Len(line.v) < 4 THEN [ret |-> Panic("index out of bounds")]
        ELSE
          LET num_nodes_local == line.v[4]
              tag_at(i) == h + i
              coord_at(i) == h + num_nodes_local + i
              bad_tags == {i \in 1..num_nodes_local :
                            \/ tag_at(i) > Len(file)
                            \/ file[tag_at(i)].k # "nums"
                            \/ Len(file[tag_at(i)].v) # 1}
              bad_coords == {i \in 1..num_nodes_local :
                            \/ coord_at(i) > Len(file)
                            \/ file[coord_at(i)].k # "nums"
                            \/ Len(file[coord_at(i)].v) < 2}
          IN  IF bad_tags # {}
              THEN [ret |-> IF tag_at(Least(bad_tags)) > Len(file) THEN NoneUnwrapped
                            ELSE Panic("found non-int node tag")]
              ELSE IF bad_coords # {}
              THEN [ret |-> IF coord_at(Least(bad_coords)) > Len(file) THEN NoneUnwrapped
                            ELSE IF file[coord_at(Least(bad_coords))].k # "nums"
                            THEN Panic("Non-float coordinate in mesh")
                            ELSE Panic("index out of bounds")]
              ELSE [ret |-> Ok,
                    pos |-> h + 2 * num_nodes_local,
                    nodes |-> [i \in 1..num_nodes_local |-> NewNode(file[coord_at(i)].v)],
                    indexes |-> [i \in 1..num_nodes_local |-> file[tag_at(i)].v[1] - 1],
                    lines |-> [i \in 1..num_nodes_local |-> coord_at(i)]]

\* mesher.rs:634-669: the entity block whose first line is line h of the
\* file; an element line of a block whose entity_dim is not 2 is read and
\* dropped
element_block(file, h) ==
    LET line == file[h]
    IN  IF line.k # "nums" THEN [ret |-> Panic("Unexpected non-int in mesh data")]
        ELSE IF Len(line.v) < 4 THEN [ret |-> Panic("index out of bounds")]
        ELSE
          LET entity_dim == line.v[1]
              num_elements == line.v[4]
              bad == {i \in 1..num_elements :
                        \/ h + i > Len(file)
                        \/ file[h + i].k # "nums"
                        \/ entity_dim = 2 /\ Len(file[h + i].v) < 4}
          IN  IF bad # {}
              THEN [ret |-> IF h + Least(bad) > Len(file) THEN NoneUnwrapped
                            ELSE IF file[h + Least(bad)].k # "nums"
                            THEN Panic("Unexpected non-int in mesh data")
                            ELSE Panic("index out of bounds")]
              ELSE [ret |-> Ok,
                    pos |-> h + num_elements,
                    elements |->
                        IF entity_dim # 2 THEN <<>>
                        ELSE [i \in 1..num_elements |->
                                LET metadata == file[h + i].v
                                IN  NewElement(<<metadata[2] - 1, metadata[3] - 1,
                                                 metadata[4] - 1>>)],
                    lines |-> IF entity_dim # 2 THEN <<>>
                              ELSE [i \in 1..num_elements |-> h + i]]

\* the loop has a line to take
Reading == pc = "parse_mesh" /\ reader.open /\ reader.pos < Len(reader.file)

CurrentLine == reader.file[reader.pos + 1]

\* the reader once lines.next() has handed out CurrentLine
Took == [reader EXCEPT !.pos = @ + 1, !.turn = reader.pos + 1]

ReaderFrame ==
    UNCHANGED <<input_json, model_metadata, gmsh, msh_file, msh, svg, vertices,
                rule_json, rules, skip, geo, solverVars, outVars>>

\* mesher.rs:559-561
ReadEmptyLine ==
    /\ Reading
    /\ line_is_empty(CurrentLine)
    /\ reader' = Took
    /\ UNCHANGED <<ctlVars, meshVars>>
    /\ ReaderFrame

\* mesher.rs:563-579
ReadLimbo ==
    /\ Reading
    /\ ~line_is_empty(CurrentLine)
    /\ state_after_end_test(reader.parser_state, CurrentLine) = "Limbo"
    /\ reader' = [Took EXCEPT !.parsed_section_metadata = FALSE,
                              !.parser_state = state_after_limbo(CurrentLine)]
    /\ UNCHANGED <<ctlVars, meshVars>>
    /\ ReaderFrame

\* mesher.rs:671
ReadEntities ==
    /\ Reading
    /\ ~line_is_empty(CurrentLine)
    /\ state_after_end_test(reader.parser_state, CurrentLine) = "Entities"
    /\ reader' = Took
    /\ UNCHANGED <<ctlVars, meshVars>>
    /\ ReaderFrame

\* mesher.rs:581-584 and 629-632
ReadSectionMetadata ==
    /\ Reading
    /\ ~line_is_empty(CurrentLine)
    /\ state_after_end_test(reader.parser_state, CurrentLine) \in {"Nodes", "Elements"}
    /\ ~reader.parsed_section_metadata
    /\ reader' = [Took EXCEPT !.parsed_section_metadata = TRUE]
    /\ UNCHANGED <<ctlVars, meshVars>>
    /\ ReaderFrame

\* mesher.rs:580-626
ReadNodeBlock ==
    /\ Reading
    /\ ~line_is_empty(CurrentLine)
    /\ state_after_end_test(reader.parser_state, CurrentLine) = "Nodes"
    /\ reader.parsed_section_metadata
    /\ LET block == node_block(reader.file, reader.pos + 1)
       IN  IF block.ret = Ok
           THEN /\ reader' = [Took EXCEPT !.pos = block.pos,
                                          !.nodes_unordered = @ \o block.nodes,
                                          !.node_indexes = @ \o block.indexes,
                                          !.node_lines = @ \o block.lines]
                /\ UNCHANGED ctlVars
           ELSE /\ reader' = Took
                /\ Return("parse_mesh", block.ret)
    /\ UNCHANGED meshVars
    /\ ReaderFrame

\* mesher.rs:628-670
ReadElementBlock ==
    /\ Reading
    /\ ~line_is_empty(CurrentLine)
    /\ state_after_end_test(reader.parser_state, CurrentLine) = "Elements"
    /\ reader.parsed_section_metadata
    /\ LET block == element_block(reader.file, reader.pos + 1)
       IN  IF block.ret = Ok
           THEN /\ reader' = [Took EXCEPT !.pos = block.pos,
                                          !.elements = @ \o block.elements,
                                          !.element_lines = @ \o block.lines]
                /\ UNCHANGED ctlVars
           ELSE /\ reader' = Took
                /\ Return("parse_mesh", block.ret)
    /\ UNCHANGED meshVars
    /\ ReaderFrame

\* mesher.rs:558 and 675-696: `lines` is at its end; the nodes are ordered
\* and parse_mesh returns
ReaderDone ==
    /\ pc = "parse_mesh"
    /\ reader.open
    /\ reader.pos = Len(reader.file)
    /\ reader' = [reader EXCEPT !.done = TRUE]
    /\ \E uninit \in UninitNodes :
        LET ordered == order_nodes(reader.node_indexes, reader.nodes_unordered, uninit)
        IN  IF ordered.ret = Ok
            THEN /\ nodes' = ordered.nodes
                 /\ elements' = reader.elements
                 /\ Continue("parse_mesh", mesher_run_next("parse_mesh"))
            ELSE /\ Return("parse_mesh", ordered.ret)
                 /\ UNCHANGED meshVars
    /\ ReaderFrame

----------------------------------------------------------------------------
(* mesher.rs: apply_boundary_conditions *)

RegionKeys == {"x_target_min", "x_target_max", "y_target_min", "y_target_max"}

\* mesher.rs:834-853: a bound that is present is read with as_f64().expect
region_bound(j, default) == IF has_key(j) THEN unwrap(as_f64(j)) ELSE default

\* some bound is present and no number: the expect of mesher.rs:837-852 panics
bad_region_value(rj) ==
    \E key \in RegionKeys : has_key(rj.region[key]) /\ is_none(as_f64(rj.region[key]))

\* mesher.rs:828-853
BoundaryRegion(rj) ==
    [x_min |-> region_bound(rj.region["x_target_min"], F64_MIN),
     x_max |-> region_bound(rj.region["x_target_max"], F64_MAX),
     y_min |-> region_bound(rj.region["y_target_min"], F64_MIN),
     y_max |-> region_bound(rj.region["y_target_max"], F64_MAX)]

\* mesher.rs:856-861
BoundaryTarget(rj) ==
    [ux |-> as_f64(rj.targets["ux"]), uy |-> as_f64(rj.targets["uy"]),
     fx |-> as_f64(rj.targets["fx"]), fy |-> as_f64(rj.targets["fy"])]

\* a variant of validate whose last test repeats the x axis
validate_x_twice(boundary_region, boundary_target) ==
    IF boundary_region.x_min > boundary_region.x_max
        THEN Err("Input", "Boundary has x_target_min greater than x_target_max")
    ELSE IF boundary_region.y_min > boundary_region.y_max
        THEN Err("Input", "Boundary has y_target_min greater than y_target_max")
    ELSE IF is_none(boundary_target.fx) /\ is_none(boundary_target.ux)
        THEN Err("Input", "Boundary is under-constrained in x-axis")
    ELSE IF is_none(boundary_target.fy) /\ is_none(boundary_target.uy)
        THEN Err("Input", "Boundary is under-constrained in y-axis")
    ELSE IF is_some(boundary_target.fx) /\ is_some(boundary_target.ux)
        THEN Err("Input", "Boundary is over-constrained in x-axis")
    ELSE IF is_some(boundary_target.fx) /\ is_some(boundary_target.ux)
        THEN Err("Input", "Boundary is over-constrained in y-axis")
    ELSE Ok

\* a variant of validate without the over-constrained test of the x axis
validate_no_over_x(boundary_region, boundary_target) ==
    IF boundary_region.x_min > boundary_region.x_max
        THEN Err("Input", "Boundary has x_target_min greater than x_target_max")
    ELSE IF boundary_region.y_min > boundary_region.y_max
        THEN Err("Input", "Boundary has y_target_min greater than y_target_max")
    ELSE IF is_none(boundary_target.fx) /\ is_none(boundary_target.ux)
        THEN Err("Input", "Boundary is under-constrained in x-axis")
    ELSE IF is_none(boundary_target.fy) /\ is_none(boundary_target.uy)
        THEN Err("Input", "Boundary is under-constrained in y-axis")
    ELSE IF is_some(boundary_target.fy) /\ is_some(boundary_target.uy)
        THEN Err("Input", "Boundary is over-constrained in y-axis")
    ELSE Ok

\* mesher.rs:863-893
validate(boundary_region, boundary_target) ==
    IF boundary_region.x_min > boundary_region.x_max
        THEN Err("Input", "Boundary has x_target_min greater than x_target_max")
    ELSE IF boundary_region.y_min > boundary_region.y_max
        THEN Err("Input", "Boundary has y_target_min greater than y_target_max")
    ELSE IF is_none(boundary_target.fx) /\ is_none(boundary_target.ux)
        THEN Err("Input", "Boundary is under-constrained in x-axis")
    ELSE IF is_none(boundary_target.fy) /\ is_none(boundary_target.uy)
        THEN Err("Input", "Boundary is under-constrained in y-axis")
    ELSE IF is_some(boundary_target.fx) /\ is_some(boundary_target.ux)
        THEN Err("Input", "Boundary is over-constrained in x-axis")
    ELSE IF is_some(boundary_target.fy) /\ is_some(boundary_target.uy)
        THEN Err("Input", "Boundary is over-constrained in y-axis")
    ELSE Ok

\* mesher.rs:815-900: one pass of the loop over the entries, up to the push
read_rule(rj) ==
    IF ~rj.has_region THEN Err("Input", "Boundary rule is missing region field")
    ELSE IF ~rj.has_targets THEN Err("Input", "Boundary rule is missing target field")
    ELSE IF bad_region_value(rj) THEN Panic("Bad value for region bound")
    ELSE validate(BoundaryRegion(rj), BoundaryTarget(rj))

\* mesher.rs:895-899
BoundaryRule(rj) == [region |-> BoundaryRegion(rj), target |-> BoundaryTarget(rj)]

\* a variant of candidate whose comparisons include the edges
candidate_inclusive(node, rule) ==
    /\ node.x >= rule.region.x_min
    /\ node.x <= rule.region.x_max
    /\ node.y >= rule.region.y_min
    /\ node.y <= rule.region.y_max

\* mesher.rs:908-911
candidate(node, rule) ==
    /\ node.x > rule.region.x_min
    /\ node.x < rule.region.x_max
    /\ node.y > rule.region.y_min
    /\ node.y < rule.region.y_max

\* a variant of stamp that writes only the quantities the rule sets and
\* leaves the others of the node as they were
stamp_keeps_unset(node, rule) ==
    [node EXCEPT !.ux = IF is_some(rule.target.ux) THEN rule.target.ux ELSE @,
                 !.uy = IF is_some(rule.target.uy) THEN rule.target.uy ELSE @,
                 !.fx = IF is_some(rule.target.fx) THEN rule.target.fx ELSE @,
                 !.fy = IF is_some(rule.target.fy) THEN rule.target.fy ELSE @]

\* mesher.rs:913-918
stamp(node, rule) ==
    [node EXCEPT !.ux = rule.target.ux, !.uy = rule.target.uy,
                 !.fx = rule.target.fx, !.fy = rule.target.fy]

RECURSIVE apply_rules_first_match(_, _, _)
\* a variant of apply_rules that stops at the first rule that holds the node
apply_rules_first_match(node, rs, k) ==
    IF k > Len(rs) THEN node
    ELSE IF candidate(node, rs[k]) THEN stamp(node, rs[k])
    ELSE apply_rules_first_match(node, rs, k + 1)

RECURSIVE apply_rules(_, _, _)
\* mesher.rs:907-919: the rules from the k-th on, in document order, on one node
apply_rules(node, rs, k) ==
    IF k > Len(rs) THEN node
    ELSE apply_rules(IF candidate(node, rs[k]) THEN stamp(node, rs[k]) ELSE node, rs, k + 1)

\* a variant of LoadRule that stamps each rule on the nodes as soon as it has
\* read it
LoadRule_stamps_at_once(RuleJsons) ==
    /\ pc = "apply_boundary_conditions"
    /\ Len(rules) < MaxRules
    /\ \E rj \in RuleJsons :
        /\ rule_json' = Some(rj)
        /\ IF read_rule(rj) = Ok
           THEN /\ rules' = Append(rules, BoundaryRule(rj))
                /\ nodes' = [i \in 1..Len(nodes) |->
                                apply_rules(nodes[i], <<BoundaryRule(rj)>>, 1)]
                /\ Continue("apply_boundary_conditions", "apply_boundary_conditions")
           ELSE /\ UNCHANGED <<rules, nodes>>
                /\ Return("apply_boundary_conditions", read_rule(rj))
    /\ UNCHANGED <<input_json, model_metadata, gmsh, msh_file, msh, svg, vertices, skip, reader, geo>>
    /\ UNCHANGED <<elements, solverVars, outVars>>

\* mesher.rs:815-900: the loop reads the next entry of boundary_conditions
LoadRule(RuleJsons) ==
    /\ pc = "apply_boundary_conditions"
    /\ Len(rules) < MaxRules
    /\ \E rj \in RuleJsons :
        /\ rule_json' = Some(rj)
        /\ IF read_rule(rj) = Ok
           THEN /\ rules' = Append(rules, BoundaryRule(rj))
                /\ Continue("apply_boundary_conditions", "apply_boundary_conditions")
           ELSE /\ UNCHANGED rules
                /\ Return("apply_boundary_conditions", read_rule(rj))
    /\ UNCHANGED <<input_json, model_metadata, gmsh, msh_file, msh, svg, vertices, skip, reader, geo>>
    /\ UNCHANGED <<meshVars, solverVars, outVars>>

\* mesher.rs:901-922 and 964-966: no entry is left; the rules are stamped on
\* the nodes and mesher::run returns Ok
StampNodes ==
    /\ pc = "apply_boundary_conditions"
    /\ nodes' = [i \in 1..Len(nodes) |-> apply_rules(nodes[i], rules, 1)]
    /\ Continue("apply_boundary_conditions", entry_next("apply_boundary_conditions"))
    /\ UNCHANGED <<inputVars, elements, solverVars, outVars>>

----------------------------------------------------------------------------
(* solver.rs: element kernels.  Vectors and matrices are functions over    *)
(* 0-based indices, as in the source.                                      *)

Vertex(nodes_, i) == nodes_[i + 1]

\* solver.rs:147-153, times two: the bracket of line 152 without its factor
\* 0.5, so that the value is an integer.  Line 187 divides by 2.0 * area,
\* which is this value, and line 236 multiplies by area, which is half of it
compute_element_area_x2(element, nodes_) ==
    LET v0 == Vertex(nodes_, element.nodes[1])
        v1 == Vertex(nodes_, element.nodes[2])
        v2 == Vertex(nodes_, element.nodes[3])
    IN  v0.x * (v1.y - v2.y) + v1.x * (v2.y - v0.y) + v2.x * (v0.y - v1.y)

\* solver.rs:164-190: a 3x6 matrix
compute_strain_displacement_matrix(element, nodes_, element_area_x2) ==
    LET v0 == Vertex(nodes_, element.nodes[1])
        v1 == Vertex(nodes_, element.nodes[2])
        v2 == Vertex(nodes_, element.nodes[3])
        beta_1 == v1.y - v2.y
        beta_2 == v2.y - v0.y
        beta_3 == v0.y - v1.y
        gamma_1 == v2.x - v1.x
        gamma_2 == v0.x - v2.x
        gamma_3 == v1.x - v0.x
        mat == << <<beta_1, 0, beta_2, 0, beta_3, 0>>,
                  <<0, gamma_1, 0, gamma_2, 0, gamma_3>>,
                  <<gamma_1, beta_1, gamma_2, beta_2, gamma_3, beta_3>> >>
    IN  [rc \in (0..2) \X (0..5) |-> FDiv(mat[rc[1] + 1][rc[2] + 1], element_area_x2)]

\* solver.rs:200-210: a 3x3 matrix
compute_stress_strain_matrix(poisson_ratio, youngs_modulus) ==
    LET scale_num == youngs_modulus
        scale_den == 1 - poisson_ratio * poisson_ratio
        mat == << <<2, 2 * poisson_ratio, 0>>,
                  <<2 * poisson_ratio, 2, 0>>,
                  <<0, 0, 1 - poisson_ratio>> >>
    IN  [rc \in (0..2) \X (0..2) |->
            FDiv(mat[rc[1] + 1][rc[2] + 1] * scale_num, 2 * scale_den)]

Sum3(f) == FAdd(FAdd(f[0], f[1]), f[2])

\* solver.rs:223-238: a 6x6 matrix
compute_element_stiffness_matrix(element, nodes_, poisson_ratio, youngs_modulus, part_thickness) ==
    LET element_area_x2 == compute_element_area_x2(element, nodes_)
        D == compute_stress_strain_matrix(poisson_ratio, youngs_modulus)
        B == compute_strain_displacement_matrix(element, nodes_, element_area_x2)
        BtD == [rl \in (0..5) \X (0..2) |->
                    Sum3([k \in 0..2 |-> FMul(B[k, rl[1]], D[k, rl[2]])])]
        BtDB == [rc \in (0..5) \X (0..5) |->
                    Sum3([l \in 0..2 |-> FMul(BtD[rc[1], l], B[l, rc[2]])])]
    IN  [rc \in (0..5) \X (0..5) |->
            FMul(FDiv(FMul(BtDB[rc], element_area_x2), 2), part_thickness)]

----------------------------------------------------------------------------
(* solver.rs: assembly *)

\* solver.rs:255-256
zeros(nrows, ncols) == [rc \in (0..(nrows - 1)) \X (0..(ncols - 1)) |-> 0]

RECURSIVE scatter_overwrites(_, _, _, _)
\* a variant of scatter that assigns the entries where scatter adds to them
scatter_overwrites(K, stiffness_mat, element, idx) ==
    IF idx = 9 THEN K
    ELSE
        LET global_row == element.nodes[(idx \div 3) + 1] * 2
            global_col == element.nodes[(idx % 3) + 1] * 2
            local_row == (idx \div 3) * 2
            local_col == (idx % 3) * 2
            K4 == [K EXCEPT
                    ![global_row, global_col] = stiffness_mat[local_row, local_col],
                    ![global_row, global_col + 1] = stiffness_mat[local_row, local_col + 1],
                    ![global_row + 1, global_col] = stiffness_mat[local_row + 1, local_col],
                    ![global_row + 1, global_col + 1] =
                        stiffness_mat[local_row + 1, local_col + 1]]
        IN  scatter_overwrites(K4, stiffness_mat, element, idx + 1)

RECURSIVE scatter(_, _, _, _)
\* solver.rs:264-284: the nine (local_row, local_col) pairs of one element,
\* from the idx-th on, each adding its four entries
scatter(K, stiffness_mat, element, idx) ==
    IF idx = 9 THEN K
    ELSE
        LET node_row == element.nodes[(idx \div 3) + 1]
            node_col == element.nodes[(idx % 3) + 1]
            global_row == node_row * 2
            global_col == node_col * 2
            local_row == (idx \div 3) * 2
            local_col == (idx % 3) * 2
            K1 == [K EXCEPT ![global_row, global_col] =
                        FAdd(@, stiffness_mat[local_row, local_col])]
            K2 == [K1 EXCEPT ![global_row, global_col + 1] =
                        FAdd(@, stiffness_mat[local_row, local_col + 1])]
            K3 == [K2 EXCEPT ![global_row + 1, global_col] =
                        FAdd(@, stiffness_mat[local_row + 1, local_col])]
            K4 == [K3 EXCEPT ![global_row + 1, global_col + 1] =
                        FAdd(@, stiffness_mat[local_row + 1, local_col + 1])]
        IN  scatter(K4, stiffness_mat, element, idx + 1)

RECURSIVE assemble(_, _, _, _)
\* solver.rs:259-285: the elements from the i-th on
assemble(K, elements_, matrices, i) ==
    IF i > Len(elements_) THEN K
    ELSE assemble(scatter(K, matrices[i], elements_[i], 0), elements_, matrices, i + 1)

\* solver.rs:250-289
build_total_stiffness_matrix(nodes_, elements_, matrices) ==
    assemble(zeros(DOF * Len(nodes_), DOF * Len(nodes_)), elements_, matrices, 1)

----------------------------------------------------------------------------
(* solver.rs: partition *)

\* solver.rs:298-312: (nodal_forces, nodal_displacements), each of length 2N
build_col_vecs(nodes_) ==
    [nodal_forces |->
        [i \in 0..(DOF * Len(nodes_) - 1) |->
            IF i % 2 = 0 THEN nodes_[(i \div 2) + 1].fx ELSE nodes_[(i \div 2) + 1].fy],
     nodal_displacements |->
        [i \in 0..(DOF * Len(nodes_) - 1) |->
            IF i % 2 = 0 THEN nodes_[(i \div 2) + 1].ux ELSE nodes_[(i \div 2) + 1].uy]]

\* the number of indices below i at which the Option vector v is Some
CountSome(v, i) == Cardinality({j \in DOMAIN v : j < i /\ is_some(v[j])})
CountNone(v, i) == Cardinality({j \in DOMAIN v : j < i /\ is_none(v[j])})

\* the index of the k-th (from 0) entry of v that is Some, resp. None
NthSome(v, k) == CHOOSE i \in DOMAIN v : is_some(v[i]) /\ CountSome(v, i) = k
NthNone(v, k) == CHOOSE i \in DOMAIN v : is_none(v[i]) /\ CountNone(v, i) = k

Size(v) == Cardinality(DOMAIN v)

\* a variant of build_known_unknown_matrices whose unknown_matrix takes its
\* rows from the top of the total matrix rather than from the indices whose
\* force is Some
build_known_unknown_matrices_top_rows(nodal_forces, nodal_displacements, K) ==
    LET num_known_displacements == CountSome(nodal_displacements, Size(nodal_displacements))
        num_unknown_displacements == Size(nodal_displacements) - num_known_displacements
        num_rows == CountSome(nodal_forces, Size(nodal_forces))
    IN  IF num_rows > num_unknown_displacements
        THEN [ret |-> Panic("index out of bounds")]
        ELSE
          [ret |-> Ok,
           nrows |-> num_unknown_displacements,
           known_matrix |->
             [rc \in (0..(num_unknown_displacements - 1)) \X (0..(num_known_displacements - 1)) |->
                IF rc[1] >= num_rows THEN 0
                ELSE LET row == NthSome(nodal_forces, rc[1])
                         col == NthSome(nodal_displacements, rc[2])
                     IN  FMul(FMul(K[row, col], unwrap(nodal_displacements[col])), -1)],
           unknown_matrix |->
             [rc \in (0..(num_unknown_displacements - 1)) \X (0..(num_unknown_displacements - 1)) |->
                IF rc[1] >= num_rows THEN 0
                ELSE LET row == rc[1]
                         col == NthNone(nodal_displacements, rc[2])
                     IN  K[row, col]]]

\* solver.rs:323-362.  The rows are the indices whose force is Some, in
\* ascending order (local_row counts them); the columns of known_matrix are
\* the indices whose displacement is Some (known_idx), those of
\* unknown_matrix the others (unknown_idx).  A row past the
\* num_unknown_displacements rows the matrices have is an index out of bounds
build_known_unknown_matrices(nodal_forces, nodal_displacements, K) ==
    LET num_known_displacements == CountSome(nodal_displacements, Size(nodal_displacements))
        num_unknown_displacements == Size(nodal_displacements) - num_known_displacements
        num_rows == CountSome(nodal_forces, Size(nodal_forces))
    IN  IF num_rows > num_unknown_displacements
        THEN [ret |-> Panic("index out of bounds")]
        ELSE
          [ret |-> Ok,
           nrows |-> num_unknown_displacements,
           known_matrix |->
             [rc \in (0..(num_unknown_displacements - 1)) \X (0..(num_known_displacements - 1)) |->
                IF rc[1] >= num_rows THEN 0
                ELSE LET row == NthSome(nodal_forces, rc[1])
                         col == NthSome(nodal_displacements, rc[2])
                     IN  FMul(FMul(K[row, col], unwrap(nodal_displacements[col])), -1)],
           unknown_matrix |->
             [rc \in (0..(num_unknown_displacements - 1)) \X (0..(num_unknown_displacements - 1)) |->
                IF rc[1] >= num_rows THEN 0
                ELSE LET row == NthSome(nodal_forces, rc[1])
                         col == NthNone(nodal_displacements, rc[2])
                     IN  K[row, col]]]

RECURSIVE row_sum_to(_, _, _)
\* the sum of the first ncols entries of row r of matrix m
row_sum_to(m, r, ncols) ==
    IF ncols = 0 THEN 0 ELSE FAdd(row_sum_to(m, r, ncols - 1), m[r, ncols - 1])

\* a variant of right_hand_side that leaves the known forces out
right_hand_side_without_forces(known_matrix, nrows, ncols, nodal_forces) ==
    IF CountSome(nodal_forces, Size(nodal_forces)) < nrows
    THEN [ret |-> Panic("index out of bounds")]
    ELSE [ret |-> Ok,
          known_matrix_summed |->
            [i \in 0..(nrows - 1) |-> row_sum_to(known_matrix, i, ncols)]]

\* solver.rs:383-388: known_matrix.column_sum() is the vector of the sums
\* along each row; the i-th known force is added to its i-th entry.  With
\* fewer known forces than rows, known_forces[i] is an index out of bounds
right_hand_side(known_matrix, nrows, ncols, nodal_forces) ==
    IF CountSome(nodal_forces, Size(nodal_forces)) < nrows
    THEN [ret |-> Panic("index out of bounds")]
    ELSE [ret |-> Ok,
          known_matrix_summed |->
            [i \in 0..(nrows - 1) |->
                FAdd(row_sum_to(known_matrix, i, ncols),
                     unwrap(nodal_forces[NthSome(nodal_forces, i)]))]]

\* solver.rs:377-388: the locals of `solve` before the CG call
setup_system(nodes_, K) ==
    LET vecs == build_col_vecs(nodes_)
        mats == build_known_unknown_matrices(vecs.nodal_forces, vecs.nodal_displacements, K)
        ncols == CountSome(vecs.nodal_displacements, Size(vecs.nodal_displacements))
        rhs == right_hand_side(mats.known_matrix, mats.nrows, ncols, vecs.nodal_forces)
    IN  IF mats.ret # Ok THEN [set |-> TRUE, ret |-> mats.ret]
        ELSE IF rhs.ret # Ok THEN [set |-> TRUE, ret |-> rhs.ret]
        ELSE [set |-> TRUE, ret |-> Ok,
              nodal_forces |-> vecs.nodal_forces,
              nodal_displacements |-> vecs.nodal_displacements,
              known_matrix |-> mats.known_matrix,
              unknown_matrix |-> mats.unknown_matrix,
              known_matrix_summed |-> rhs.known_matrix_summed]

----------------------------------------------------------------------------
(* solver.rs: run_conjugate_gradient.  The iteration is the argmin          *)
(* Executor's; the model keeps what the program hands to it and takes from *)
(* it: the start parameter, the two stopping settings, the cost of each    *)
(* iterate and the best parameter.  The numbers an iterate holds are the   *)
(* library's: the model draws them.                                        *)

Costs == 0..MaxCost

HasNaN(f) == \E i \in DOMAIN f : f[i] = NaN

\* the parameter vectors of length n the executor may hold
Params(n) == {[k \in 0..(n - 1) |-> 0], [k \in 0..(n - 1) |-> k + 1]}

\* the cost of the start parameter: the residual of x = 0 is b itself
InitialCosts(a, b) ==
    IF HasNaN(a) \/ HasNaN(b) THEN {NaN}
    ELSE IF \A i \in DOMAIN b : b[i] = 0 THEN {0}
    ELSE {c \in Costs : c > TARGET_CG_COST}

\* the executor keeps the parameter of the least cost seen; a NaN cost is
\* less than nothing
update(state) ==
    IF state.cost # NaN /\ (is_none(state.best_cost) \/ state.cost < unwrap(state.best_cost))
    THEN [state EXCEPT !.best_cost = Some(state.cost), !.best_param = Some(state.param)]
    ELSE state

\* a variant of terminated whose iteration test is off by one
terminated_off_by_one(state) ==
    \/ state.iter > MAX_CG_ITER
    \/ is_some(state.best_cost) /\ unwrap(state.best_cost) <= TARGET_CG_COST

\* solver.rs:113-114: max_iters(MAX_CG_ITER) and target_cost(TARGET_CG_COST)
terminated(state) ==
    \/ state.iter >= MAX_CG_ITER
    \/ is_some(state.best_cost) /\ unwrap(state.best_cost) <= TARGET_CG_COST

\* solver.rs:101-117: the executor starts from the all-zero initial_guess
CgInit ==
    /\ pc = "cg"
    /\ ~cg.started
    /\ \E c \in InitialCosts(sys.unknown_matrix, sys.known_matrix_summed) :
        cg' = update([started |-> TRUE, iter |-> 0, cost |-> c,
                      param |-> [k \in DOMAIN sys.known_matrix_summed |-> 0],
                      best_cost |-> None, best_param |-> None])
    /\ Continue("cg", "cg")
    /\ UNCHANGED <<inputVars, meshVars, outVars>>
    /\ UNCHANGED <<element_stiffness_matrices, total_stiffness_matrix, sys>>

\* one iteration of the executor
CgIter ==
    /\ pc = "cg"
    /\ cg.started
    /\ ~terminated(cg)
    /\ \E c \in Costs \cup {NaN}, x \in Params(Size(sys.known_matrix_summed)) :
        cg' = update([cg EXCEPT !.iter = @ + 1, !.cost = c, !.param = x])
    /\ UNCHANGED <<ctlVars, inputVars, meshVars, outVars>>
    /\ UNCHANGED <<element_stiffness_matrices, total_stiffness_matrix, sys>>

\* solver.rs:119-136 and 394: the executor has stopped; an Err of the
\* executor or a missing best parameter is a Solver error, which `solve` and
\* solver::run hand up; anything else is Ok(best_param)
run_conjugate_gradient(state, executor_failed) ==
    IF executor_failed THEN Err("Solver", "Conjugate Gradient error")
    ELSE IF is_none(state.best_param)
        THEN Err("Solver", "Conjugate Gradient could not produce best parameter")
    ELSE Ok

CgFinish ==
    /\ pc = "cg"
    /\ cg.started
    /\ terminated(cg)
    /\ \E executor_failed \in BOOLEAN :
        LET r == run_conjugate_gradient(cg, executor_failed)
        IN  IF r = Ok THEN Continue("cg", solver_run_next("cg")) ELSE Return("cg", r)
    /\ UNCHANGED <<inputVars, meshVars, solverVars, outVars>>

----------------------------------------------------------------------------
(* solver.rs: write-back and stress recovery *)

\* a variant of load_displacements that writes the solution over the
\* unknown entries in reverse order and resets the prescribed ones
load_displacements_resets_known(nodal_displacements, displacement_solution) ==
    [i \in DOMAIN nodal_displacements |->
        IF is_none(nodal_displacements[i])
        THEN displacement_solution[Size(displacement_solution) - 1
                                    - CountNone(nodal_displacements, i)]
        ELSE 0]

\* solver.rs:399-410
load_displacements(nodal_displacements, displacement_solution) ==
    [i \in DOMAIN nodal_displacements |->
        IF is_none(nodal_displacements[i])
        THEN displacement_solution[CountNone(nodal_displacements, i)]
        ELSE unwrap(nodal_displacements[i])]

RECURSIVE dot_to(_, _, _, _)
\* the sum of K[i, col] * u[col] over the first n columns, left to right
dot_to(K, i, u, n) ==
    IF n = 0 THEN 0 ELSE FAdd(dot_to(K, i, u, n - 1), FMul(K[i, n - 1], u[n - 1]))

\* a variant of solve_forces that computes the force at every index, the
\* prescribed ones included
solve_forces_recomputes_all(nodal_forces, nodal_displacements, K) ==
    [i \in DOMAIN nodal_forces |->
        dot_to(K, i, nodal_displacements, Size(nodal_displacements))]

\* solver.rs:412-429
solve_forces(nodal_forces, nodal_displacements, K) ==
    [i \in DOMAIN nodal_forces |->
        IF is_some(nodal_forces[i]) THEN unwrap(nodal_forces[i])
        ELSE dot_to(K, i, nodal_displacements, Size(nodal_displacements))]

\* a variant of load_results that writes the displacements back and leaves
\* the forces of the nodes as they were
load_results_displacements_only(nodes_, nodal_displacements, nodal_forces) ==
    [n \in 1..Len(nodes_) |->
        [nodes_[n] EXCEPT !.ux = Some(nodal_displacements[2 * (n - 1)]),
                          !.uy = Some(nodal_displacements[2 * (n - 1) + 1])]]

\* solver.rs:431-438
load_results(nodes_, nodal_displacements, nodal_forces) ==
    [n \in 1..Len(nodes_) |->
        [nodes_[n] EXCEPT !.ux = Some(nodal_displacements[2 * (n - 1)]),
                          !.uy = Some(nodal_displacements[2 * (n - 1) + 1]),
                          !.fx = Some(nodal_forces[2 * (n - 1)]),
                          !.fy = Some(nodal_forces[2 * (n - 1) + 1])]]

\* solver.rs:458-481 for one element.  The value is the radicand
\* stress[0]^2 + stress[1]^2 of line 480, whose square root is the scalar
\* the program stores
element_stress(element, nodes_, poisson_ratio, youngs_modulus) ==
    LET u == [k \in 0..5 |->
                LET node == Vertex(nodes_, element.nodes[(k \div 2) + 1])
                IN  IF k % 2 = 0 THEN unwrap(node.ux) ELSE unwrap(node.uy)]
        D == compute_stress_strain_matrix(poisson_ratio, youngs_modulus)
        B == compute_strain_displacement_matrix(element, nodes_,
                compute_element_area_x2(element, nodes_))
        DB == [rc \in (0..2) \X (0..5) |->
                Sum3([k \in 0..2 |-> FMul(D[rc[1], k], B[k, rc[2]])])]
        stress == [r \in 0..2 |-> dot_to(DB, r, u, 6)]
    IN  FAdd(FMul(stress[0], stress[0]), FMul(stress[1], stress[1]))

\* solver.rs:452-482
compute_stress(elements_, nodes_, poisson_ratio, youngs_modulus) ==
    [i \in 1..Len(elements_) |->
        [elements_[i] EXCEPT
            !.stress = Some(element_stress(elements_[i], nodes_, poisson_ratio, youngs_modulus))]]

----------------------------------------------------------------------------
(* solver.rs: the phases of solver::run *)

\* solver.rs:495-514
ElementKernels ==
    /\ pc = "kernels"
    /\ element_stiffness_matrices' =
        [i \in 1..Len(elements) |->
            compute_element_stiffness_matrix(elements[i], nodes,
                unwrap(model_metadata).poisson_ratio,
                unwrap(model_metadata).youngs_modulus,
                unwrap(model_metadata).part_thickness)]
    /\ Continue("kernels", solver_run_next("kernels"))
    /\ UNCHANGED <<inputVars, meshVars, outVars, total_stiffness_matrix, sys, cg>>

\* solver.rs:516-519
Assemble ==
    /\ pc = "assembly"
    /\ total_stiffness_matrix' =
        build_total_stiffness_matrix(nodes, elements, element_stiffness_matrices)
    /\ Continue("assembly", solver_run_next("assembly"))
    /\ UNCHANGED <<inputVars, meshVars, outVars, element_stiffness_matrices, sys, cg>>

\* solver.rs:376-388
Partition ==
    /\ pc = "partition"
    /\ sys' = setup_system(nodes, total_stiffness_matrix)
    /\ IF sys'.ret = Ok THEN Continue("partition", solver_run_next("partition")) ELSE Return("partition", sys'.ret)
    /\ UNCHANGED <<inputVars, meshVars, outVars>>
    /\ UNCHANGED <<element_stiffness_matrices, total_stiffness_matrix, cg>>

\* solver.rs:399-442
WriteBack ==
    /\ pc = "write_back"
    /\ LET nodal_displacements ==
                load_displacements(sys.nodal_displacements, unwrap(cg.best_param))
           nodal_forces ==
                solve_forces(sys.nodal_forces, nodal_displacements, total_stiffness_matrix)
       IN  nodes' = load_results(nodes, nodal_displacements, nodal_forces)
    /\ Continue("write_back", solver_run_next("write_back"))
    /\ UNCHANGED <<inputVars, elements, solverVars, outVars>>

\* solver.rs:524-532: the stress pass, after which solver::run returns Ok
ComputeStress ==
    /\ pc = "stress"
    /\ elements' = compute_stress(elements, nodes,
            unwrap(model_metadata).poisson_ratio, unwrap(model_metadata).youngs_modulus)
    /\ Continue("stress", entry_next("stress"))
    /\ UNCHANGED <<inputVars, nodes, solverVars, outVars>>

----------------------------------------------------------------------------
(* post_processor.rs *)

\* a value the writer unwraps is absent: post_processor.rs:50-51 and 70
absent_output(nodes_, elements_) ==
    \/ \E i \in 1..Len(nodes_) : is_none(nodes_[i].ux) \/ is_none(nodes_[i].uy)
    \/ \E i \in 1..Len(elements_) : is_none(elements_[i].stress)

\* post_processor.rs:18-83; `how` is how the file system answered
csv_output(how, nodes_, elements_) ==
    IF how = "nodes_not_created" THEN Err("Solver", "Failed to create nodes.csv")
    ELSE IF how = "elements_not_created" THEN Err("Solver", "Failed to create elements.csv")
    ELSE IF how = "write_failed" THEN Panic("called Result::unwrap() on an Err value")
    ELSE IF absent_output(nodes_, elements_)
        THEN Panic("called Option::unwrap() on a None value")
    ELSE Ok

\* the two files after csv_output: File::create leaves an empty file, the
\* writes fill it
csv_files(how, nodes_, elements_) ==
    IF how = "nodes_not_created" THEN NoFiles
    ELSE IF how = "elements_not_created"
        THEN [nodes_csv |-> "empty", elements_csv |-> "absent"]
    ELSE IF csv_output(how, nodes_, elements_) # Ok
        THEN [nodes_csv |-> "partial", elements_csv |-> "empty"]
    ELSE [nodes_csv |-> "written", elements_csv |-> "written"]

\* main.rs:66-75: the output stage; with args.skip `entry` returns Ok here
CsvOutput ==
    /\ pc = "csv_output"
    /\ \E how \in {"ok", "nodes_not_created", "elements_not_created", "write_failed"} :
        /\ files' = csv_files(how, nodes, elements)
        /\ IF csv_output(how, nodes, elements) # Ok
           THEN /\ Return("csv_output", csv_output(how, nodes, elements))
                /\ UNCHANGED skip
           ELSE \E s \in BOOLEAN :
                /\ skip' = Some(s)
                /\ IF s THEN Return("csv_output", Ok) ELSE Continue("csv_output", entry_next("csv_output"))
    /\ UNCHANGED <<input_json, model_metadata, gmsh, msh_file, msh, svg, vertices, rule_json, rules, reader, geo>>
    /\ UNCHANGED <<meshVars, solverVars, plot>>

\* post_processor.rs:90-123; `how` is how finding and running the plotter went
pyplot(how) ==
    IF how = "script_not_found" THEN Panic("Unable to find plotter script")
    ELSE IF how = "python_not_launched" THEN Panic("called Result::unwrap() on an Err value")
    ELSE IF how = "nonzero_exit"
        THEN Err("PostProcessor", "error: python plotter raised error")
    ELSE Ok

\* main.rs:71-75
Pyplot ==
    /\ pc = "pyplot"
    /\ \E how \in {"ok", "nonzero_exit", "python_not_launched", "script_not_found"} :
        /\ plot' = how
        /\ Return("pyplot", pyplot(how))
    /\ UNCHANGED <<inputVars, meshVars, solverVars, files>>

----------------------------------------------------------------------------
(* The whole run: main.rs `entry` *)

Init ==
    /\ pc = "load_input_file"
    /\ trace = <<>>
    /\ stage_ret = Running
    /\ result = Running
    /\ exit_code = None
    /\ input_json = None
    /\ model_metadata = None
    /\ gmsh = "not_run"
    /\ msh_file = "absent"
    /\ msh = None
    /\ svg = None
    /\ vertices = <<>>
    /\ reader = NoReader
    /\ geo = None
    /\ nodes = <<>>
    /\ elements = <<>>
    /\ rule_json = None
    /\ rules = <<>>
    /\ element_stiffness_matrices = <<>>
    /\ total_stiffness_matrix = <<>>
    /\ sys = NoSys
    /\ cg = NoCg
    /\ files = NoFiles
    /\ skip = None
    /\ plot = "not_run"

Next ==
    \/ LoadInputFile
    \/ ParseInputMetadata
    \/ ParseGeometry
    \/ ComputeMesh
    \/ ParseMesh
    \/ LoadRule(PipelineRuleJsons)
    \/ StampNodes
    \/ ElementKernels
    \/ Assemble
    \/ Partition
    \/ CgInit
    \/ CgIter
    \/ CgFinish
    \/ WriteBack
    \/ ComputeStress
    \/ CsvOutput
    \/ Pyplot

Spec == Init /\ [][Next]_vars

\* run_conjugate_gradient is sequential code with no suspension point: once
\* called, the executor takes its next step, and the function returns when
\* the executor has stopped
FairSpec == Spec /\ WF_vars(CgInit) /\ WF_vars(CgIter) /\ WF_vars(CgFinish)

----------------------------------------------------------------------------
(* apply_boundary_conditions alone, on the nodes parse_mesh hands over,    *)
(* under every entry of BcRuleJsons                                        *)

ValidDoc ==
    [has_metadata |-> TRUE, has_boundary_conditions |-> TRUE,
     metadata |-> MetaJson([key \in MetaKeys |-> "num"])]

InitBC ==
    /\ pc = "apply_boundary_conditions"
    /\ trace = <<"load_input_file", "parse_input_metadata", "geometry",
                 "compute_mesh", "parse_mesh">>
    /\ stage_ret = Ok
    /\ result = Running
    /\ exit_code = None
    /\ input_json = Some(ValidDoc)
    /\ model_metadata = Some(ModelMetadata(ValidDoc))
    /\ gmsh = "ok"
    /\ msh_file = "absent"
    /\ msh = None
    /\ svg = None
    /\ vertices = <<>>
    /\ reader = NoReader
    /\ geo = None
    /\ \E mesh \in {MeshS2} :
        /\ nodes = MeshNodes(mesh)
        /\ elements = MeshElements(mesh)
    /\ rule_json = None
    /\ rules = <<>>
    /\ element_stiffness_matrices = <<>>
    /\ total_stiffness_matrix = <<>>
    /\ sys = NoSys
    /\ cg = NoCg
    /\ files = NoFiles
    /\ skip = None
    /\ plot = "not_run"

NextBC ==
    \/ LoadRule(BcRuleJsons)
    \/ StampNodes

SpecBC == InitBC /\ [][NextBC]_vars

----------------------------------------------------------------------------
(* parse_mesh alone, on every file of MshFiles                             *)

InitMesh ==
    /\ pc = "parse_mesh"
    /\ trace = <<"load_input_file", "parse_input_metadata", "geometry", "compute_mesh">>
    /\ stage_ret = Ok
    /\ result = Running
    /\ exit_code = None
    /\ input_json = Some(ValidDoc)
    /\ model_metadata = Some(ModelMetadata(ValidDoc))
    /\ gmsh = "ok"
    /\ msh_file = "present"
    /\ msh \in {Some(file) : file \in MshFiles}
    /\ svg = None
    /\ vertices = <<>>
    /\ reader = NoReader
    /\ geo = None
    /\ nodes = <<>>
    /\ elements = <<>>
    /\ rule_json = None
    /\ rules = <<>>
    /\ element_stiffness_matrices = <<>>
    /\ total_stiffness_matrix = <<>>
    /\ sys = NoSys
    /\ cg = NoCg
    /\ files = NoFiles
    /\ skip = None
    /\ plot = "not_run"

NextMesh == ParseMesh

SpecMesh == InitMesh /\ [][NextMesh]_vars

----------------------------------------------------------------------------
(* parse_svg alone, on every document of SvgDocs                           *)

InitSvg ==
    /\ pc = "geometry"
    /\ trace = <<"load_input_file", "parse_input_metadata">>
    /\ stage_ret = Ok
    /\ result = Running
    /\ exit_code = None
    /\ input_json = Some(ValidDoc)
    /\ model_metadata = Some(ModelMetadata(ValidDoc))
    /\ gmsh = "not_run"
    /\ msh_file = "absent"
    /\ msh = None
    /\ svg = None
    /\ vertices = <<>>
    /\ reader = NoReader
    /\ geo = None
    /\ nodes = <<>>
    /\ elements = <<>>
    /\ rule_json = None
    /\ rules = <<>>
    /\ element_stiffness_matrices = <<>>
    /\ total_stiffness_matrix = <<>>
    /\ sys = NoSys
    /\ cg = NoCg
    /\ files = NoFiles
    /\ skip = None
    /\ plot = "not_run"

NextSvg == ParseSvg(SvgDocs)

SpecSvg == InitSvg /\ [][NextSvg]_vars

----------------------------------------------------------------------------
(* the line loop of parse_mesh alone, on every file of MshLineFiles        *)

InitReader ==
    /\ pc = "parse_mesh"
    /\ trace = <<"load_input_file", "parse_input_metadata", "geometry", "compute_mesh">>
    /\ stage_ret = Ok
    /\ result = Running
    /\ exit_code = None
    /\ input_json = Some(ValidDoc)
    /\ model_metadata = Some(ModelMetadata(ValidDoc))
    /\ gmsh = "ok"
    /\ msh_file = "present"
    /\ msh = None
    /\ svg = None
    /\ vertices = <<>>
    /\ reader \in {NewReader(file) : file \in MshLineFiles}
    /\ geo = None
    /\ nodes = <<>>
    /\ elements = <<>>
    /\ rule_json = None
    /\ rules = <<>>
    /\ element_stiffness_matrices = <<>>
    /\ total_stiffness_matrix = <<>>
    /\ sys = NoSys
    /\ cg = NoCg
    /\ files = NoFiles
    /\ skip = None
    /\ plot = "not_run"

NextReader ==
    \/ ReadEmptyLine
    \/ ReadLimbo
    \/ ReadEntities
    \/ ReadSectionMetadata
    \/ ReadNodeBlock
    \/ ReadElementBlock
    \/ ReaderDone

SpecReader == InitReader /\ [][NextReader]_vars

----------------------------------------------------------------------------
(* build_geo alone, on every list of containers of GeoContainers           *)

InitGeo ==
    /\ pc = "compute_mesh"
    /\ trace = <<"load_input_file", "parse_input_metadata", "geometry">>
    /\ stage_ret = Ok
    /\ result = Running
    /\ exit_code = None
    /\ input_json = Some(ValidDoc)
    /\ model_metadata = Some(ModelMetadata(ValidDoc))
    /\ gmsh = "not_run"
    /\ msh_file = "absent"
    /\ msh = None
    /\ svg = None
    /\ vertices \in GeoContainers
    /\ reader = NoReader
    /\ geo = None
    /\ nodes = <<>>
    /\ elements = <<>>
    /\ rule_json = None
    /\ rules = <<>>
    /\ element_stiffness_matrices = <<>>
    /\ total_stiffness_matrix = <<>>
    /\ sys = NoSys
    /\ cg = NoCg
    /\ files = NoFiles
    /\ skip = None
    /\ plot = "not_run"

NextGeo == BuildGeo

SpecGeo == InitGeo /\ [][NextGeo]_vars

----------------------------------------------------------------------------
(* Properties *)

IsPrefix(s, t) == Len(s) <= Len(t) /\ \A i \in 1..Len(s) : s[i] = t[i]

MesherStages ==
    <<"load_input_file", "parse_input_metadata", "geometry", "compute_mesh",
      "parse_mesh", "apply_boundary_conditions">>

SolverPhases == <<"kernels", "assembly", "partition", "cg", "write_back", "stress">>

OutputStages == <<"csv_output", "pyplot">>

Range(s) == {s[i] : i \in 1..Len(s)}

IsSolverPhase(name) == name \in Range(SolverPhases)

\* the phases of solver::run started so far
SolverTrace == SelectSeq(trace, IsSolverPhase)

\* solver::run has returned Ok
SolverReturnedOk == pc \in {"csv_output", "pyplot"} \/ "csv_output" \in Range(trace)

\* `solve` has returned an error
SolveFailed ==
    /\ stage_ret.tag = "err"
    /\ trace # <<>>
    /\ trace[Len(trace)] \in {"partition", "cg", "write_back"}

\* C1: the phases of one solver::run start once each, in the order element
\* kernels, assembly, partition, CG, write-back, stress recovery; they have
\* all run when solver::run has returned Ok; and when `solve` fails the run
\* has ended with the failure of `solve` as its result, the stress pass and
\* every later stage not started.
C1_PhaseOrder ==
    /\ IsPrefix(SolverTrace, SolverPhases)
    /\ SolverReturnedOk => SolverTrace = SolverPhases
    /\ SolveFailed =>
        /\ pc = "exit"
        /\ result = stage_ret
        /\ "stress" \notin Range(trace)
        /\ "csv_output" \notin Range(trace)
        /\ \A i \in 1..Len(elements) : is_none(elements[i].stress)

C1_Witness_SolveFailedAfterCg ==
    /\ SolveFailed
    /\ SolverTrace = <<"kernels", "assembly", "partition", "cg">>
    /\ result.kind = "Solver"

\* the stages of `entry`, a stage being a call of mesher::run, a phase of
\* solver::run, csv_output or pyplot
EntryOrder == MesherStages \o SolverPhases \o OutputStages

\* C2: the stages of a run start in the order input parse, geometry, mesh,
\* boundary stamping, solver, CSV output, plot, none twice; once a stage has
\* returned an error the run has ended, its result is that error value,
\* kind and message, and the stage is the last one started.
C2_FailFast ==
    /\ IsPrefix(trace, EntryOrder)
    /\ stage_ret.tag = "err" =>
        /\ pc = "exit"
        /\ result = stage_ret
    /\ result.tag = "err" => result = stage_ret /\ pc = "exit"

C2_Witness_PlotError ==
    /\ pc = "exit"
    /\ trace = EntryOrder
    /\ stage_ret = Err("PostProcessor", "error: python plotter raised error")
    /\ result = stage_ret

ExactlyOne(a, b) == is_some(a) # is_some(b)

\* C3: when mesher::run has returned Ok, every node has exactly one of ux
\* and fx and exactly one of uy and fy.
C3_OneOfEachAxis ==
    pc = "kernels" =>
        \A i \in 1..Len(nodes) :
            /\ ExactlyOne(nodes[i].ux, nodes[i].fx)
            /\ ExactlyOne(nodes[i].uy, nodes[i].fy)

\* two rules were stamped, one node carries a prescribed displacement on x
\* and a prescribed force on y, another kept the defaults of the ingest
C3_Witness_Stamped ==
    /\ pc = "kernels"
    /\ Len(rules) = 2
    /\ \E i \in 1..Len(nodes) : is_some(nodes[i].ux) /\ is_some(nodes[i].fy)
    /\ \E i \in 1..Len(nodes) : is_none(nodes[i].ux) /\ is_none(nodes[i].uy)

\* C4: when solver::run has returned Ok, every node has ux, uy, fx and fy
\* and every element has its stress.
C4_AllPresentAfterSolve ==
    SolverReturnedOk =>
        /\ \A i \in 1..Len(nodes) :
            /\ is_some(nodes[i].ux) /\ is_some(nodes[i].uy)
            /\ is_some(nodes[i].fx) /\ is_some(nodes[i].fy)
        /\ \A i \in 1..Len(elements) : is_some(elements[i].stress)

\* the solver has just returned Ok on a mesh of two elements in which some
\* displacement was prescribed and some was solved for
C4_Witness_Solved ==
    /\ pc = "csv_output"
    /\ Len(elements) = 2
    /\ \E i \in DOMAIN sys.nodal_displacements : is_some(sys.nodal_displacements[i])
    /\ \E i \in DOMAIN sys.nodal_displacements : is_none(sys.nodal_displacements[i])

\* a field of `targets` sets a quantity when it holds a number
Sets(j) == j.k = "num"

UnderConstrained(targets) ==
    \/ ~Sets(targets.ux) /\ ~Sets(targets.fx)
    \/ ~Sets(targets.uy) /\ ~Sets(targets.fy)

OverConstrained(targets) ==
    \/ Sets(targets.ux) /\ Sets(targets.fx)
    \/ Sets(targets.uy) /\ Sets(targets.fy)

\* the entry read last got as far as the registration of its targets
\* (mesher.rs:855): it has both fields and every bound it gives is a number
TargetsRegistered ==
    /\ is_some(rule_json)
    /\ unwrap(rule_json).has_region
    /\ unwrap(rule_json).has_targets
    /\ ~bad_region_value(unwrap(rule_json))

ConstraintMessages ==
    {"Boundary is under-constrained in x-axis", "Boundary is under-constrained in y-axis",
     "Boundary is over-constrained in x-axis", "Boundary is over-constrained in y-axis"}

NumericalWorkStarted ==
    \/ \E i \in 1..Len(trace) : IsSolverPhase(trace[i])
    \/ element_stiffness_matrices # <<>>
    \/ total_stiffness_matrix # <<>>
    \/ sys.set
    \/ cg.started

Degenerate(element) == compute_element_area_x2(element, nodes) <= 0

\* a value the solver or the stress pass wrote: a displacement or a force
\* that was unknown before the solve, or a stress
ResultProduced ==
    \/ \E i \in 1..Len(elements) : is_some(elements[i].stress)
    \/ \E i \in 1..Len(nodes) :
        \/ is_some(nodes[i].ux) /\ is_some(nodes[i].fx)
        \/ is_some(nodes[i].uy) /\ is_some(nodes[i].fy)

\* C7 (what the specification asks for): when solver::run is given a mesh
\* with an element of signed area A <= 0, the run ends with a Solver error
\* that reports a degenerate element, and no displacement, force or stress
\* result is produced.
C7_DegenerateRejected ==
    ((\E i \in 1..Len(elements) : Degenerate(elements[i])) /\ NumericalWorkStarted) =>
        /\ ~ResultProduced
        /\ pc = "exit" =>
            /\ result.tag = "err"
            /\ result.kind = "Solver"
            /\ result.msg = "degenerate element"

\* the CG executor stopped at the iteration bound, the cost above the target
Unconverged ==
    /\ cg.started
    /\ cg.iter >= MAX_CG_ITER
    /\ ~(is_some(cg.best_cost) /\ unwrap(cg.best_cost) <= TARGET_CG_COST)

\* C8 (what the specification asks for): when CG has reached the iteration
\* bound without the cost having dropped to the target, `solve` returns a
\* Solver error and no displacement is written to a node.
C8_UnconvergedIsError ==
    (Unconverged /\ pc # "cg") =>
        /\ pc = "exit"
        /\ result.tag = "err"
        /\ result.kind = "Solver"
        /\ ~ResultProduced

AtMostTarget(cost) == cost # NaN /\ cost <= TARGET_CG_COST

\* C9: the CG phase starts from the all-zero guess at iteration 0; it takes
\* another iteration only while the cost is above the target and the count
\* below the bound, so that the count never passes the bound; it is left
\* only with the cost at most the target or the count at the bound; and it
\* is always left.
C9_CgTerminates ==
    /\ [](cg.started => cg.iter <= MAX_CG_ITER)
    /\ [][(~cg.started /\ cg'.started) =>
            /\ cg'.iter = 0
            /\ \A k \in DOMAIN cg'.param : cg'.param[k] = 0]_vars
    /\ [][(cg.started /\ cg'.started /\ cg'.iter # cg.iter) =>
            /\ cg'.iter = cg.iter + 1
            /\ ~AtMostTarget(cg.cost)
            /\ cg.iter < MAX_CG_ITER]_vars
    /\ [][(pc = "cg" /\ cg.started /\ pc' # "cg") =>
            (AtMostTarget(cg.cost) \/ cg.iter = MAX_CG_ITER)]_vars
    /\ (pc = "cg") ~> (pc # "cg")

\* the executor ran to the bound on a system of four unknowns and stopped
\* there, the cost still above the target
C9_Witness_StoppedAtBound ==
    /\ pc = "write_back"
    /\ cg.iter = MAX_CG_ITER
    /\ ~AtMostTarget(cg.cost)
    /\ Size(cg.param) = 4

\* C10 (what the specification asks for): when the run has ended with an
\* error, of whatever stage, it has emitted neither nodes.csv nor
\* elements.csv.
C10_NoFilesOnError ==
    (pc = "exit" /\ result.tag = "err") => files = NoFiles

\* the run ended in a failure of some stage: an error value or a panic
RunFailed == pc = "exit" /\ stage_ret.tag # "ok"

\* C11 (what the specification asks for): the process exits with status 0
\* exactly when every stage succeeded, and with status 1 on any failure:
\* invalid input of any kind, or a failure of the mesher, the solver, the
\* output or the plotter.
C11_ExitCodes ==
    pc = "exit" =>
        /\ (exit_code = Some(0)) <=> (stage_ret.tag = "ok")
        /\ RunFailed => exit_code = Some(1)

\* the node lies inside the rectangle of the region, off its edges
StrictlyInside(node, region) ==
    /\ region.x_min < node.x /\ node.x < region.x_max
    /\ region.y_min < node.y /\ node.y < region.y_max

\* the rules, by their place in the document, whose rectangle holds the node
RulesOver(node) == {k \in 1..Len(rules) : StrictlyInside(node, rules[k].region)}

Last(ks) == CHOOSE k \in ks : \A j \in ks : j <= k

\* C12: when the rules have been stamped, a node that no rule's rectangle
\* holds strictly, a node on an edge or a corner included, is as the ingest
\* left it, and any other node carries the four targets of the last rule
\* whose rectangle holds it strictly.
C12_StrictRegion ==
    pc = "kernels" =>
        \A i \in 1..Len(nodes) :
            IF RulesOver(nodes[i]) = {}
            THEN nodes[i] = NewNode(<<nodes[i].x, nodes[i].y>>)
            ELSE LET target == rules[Last(RulesOver(nodes[i]))].target
                 IN  /\ nodes[i].ux = target.ux /\ nodes[i].uy = target.uy
                     /\ nodes[i].fx = target.fx /\ nodes[i].fy = target.fy

\* a rule over x < 1 with ux = 0 was stamped: a node at x = 0 carries it and
\* a node at x = 1, on the edge of the rectangle, does not
C12_Witness_NodeOnEdge ==
    /\ pc = "kernels"
    /\ Len(rules) = 1
    /\ rules[1].region.x_max = 1
    /\ rules[1].target.ux = Some(0)
    /\ \E i \in 1..Len(nodes) : nodes[i].x = 0 /\ nodes[i].ux = Some(0)
    /\ \E i \in 1..Len(nodes) : nodes[i].x = 1 /\ nodes[i].ux = None

\* the document read has no metadata, or a metadata key that is missing or
\* holds something that is no number
InvalidMetadata ==
    /\ is_some(input_json)
    /\ \/ ~unwrap(input_json).has_metadata
       \/ \E key \in MetaKeys : unwrap(input_json).metadata[key].k # "num"

\* the entry read last has a region bound that is no number, or a region
\* whose minimum is greater than its maximum
InvalidRegion ==
    /\ is_some(rule_json)
    /\ unwrap(rule_json).has_region
    /\ \/ bad_region_value(unwrap(rule_json))
       \/ BoundaryRegion(unwrap(rule_json)).x_min > BoundaryRegion(unwrap(rule_json)).x_max
       \/ BoundaryRegion(unwrap(rule_json)).y_min > BoundaryRegion(unwrap(rule_json)).y_max

EndedWithInputError == pc = "exit" /\ result.tag = "err" /\ result.kind = "Input"

\* C13 (what the specification asks for): a document with a missing
\* metadata key, with a value that is no number where a number is required
\* (a metadata field, a region bound) or with a region whose minimum is
\* greater than its maximum ends the run with an Input error value, and in
\* no other way: the run gets no further than the stage that reads the
\* invalid part.
C13_InvalidInputIsInputError ==
    /\ InvalidMetadata =>
        /\ pc \in {"parse_input_metadata", "exit"}
        /\ pc = "exit" => EndedWithInputError
    /\ InvalidRegion => EndedWithInputError

\* C14 (what the specification asks for): when the external mesher could
\* not be launched or ended with a non-zero status, the run has ended in
\* compute_mesh with a Mesher error; when the external plotter could not be
\* launched or ended with a non-zero status, the run has ended with a
\* PostProcessor error.
C14_ExternalFailures ==
    /\ gmsh \in {"spawn_failed", "nonzero_exit"} =>
        /\ pc = "exit"
        /\ result.tag = "err" /\ result.kind = "Mesher"
        /\ trace[Len(trace)] = "compute_mesh"
    /\ plot \in {"python_not_launched", "nonzero_exit"} =>
        /\ pc = "exit"
        /\ result.tag = "err" /\ result.kind = "PostProcessor"

\* csv_output did not succeed: a file could not be created or written
CsvOutputFailed ==
    /\ pc = "exit"
    /\ trace[Len(trace)] = "csv_output"
    /\ stage_ret.tag # "ok"

\* C15 (what the specification asks for): when nodes.csv or elements.csv
\* could not be created or written, the run has ended with an error of kind
\* PostProcessor.
C15_OutputErrorKind ==
    CsvOutputFailed => (result.tag = "err" /\ result.kind = "PostProcessor")

\* parse_mesh has returned Ok for the file of `msh`
MeshParsed == is_some(msh) /\ "parse_mesh" \in Range(trace) /\ pc = "apply_boundary_conditions"

\* the <<block, place>> pairs of the nodes of a file
NodePlaces(file) ==
    {bi \in (1..Len(file.node_blocks)) \X (1..Len(MshCoords)) :
        bi[2] <= Len(file.node_blocks[bi[1]].tags)}

FileTags(file) == {file.node_blocks[bi[1]].tags[bi[2]] : bi \in NodePlaces(file)}

\* the tags of the file are 1..N, each once
TagsArePermutation(file) ==
    /\ FileTags(file) = 1..Cardinality(NodePlaces(file))
    /\ Cardinality(FileTags(file)) = Cardinality(NodePlaces(file))

\* the coordinates the file gives the node with tag `tag`
FileCoord(file, tag) ==
    LET bi == CHOOSE p \in NodePlaces(file) : file.node_blocks[p[1]].tags[p[2]] = tag
    IN  file.node_blocks[bi[1]].coords[bi[2]]

RECURSIVE LinesOfDim(_, _)
\* the element lines of the blocks of dimension `dim`, in the order of the file
LinesOfDim(element_blocks, dim) ==
    IF element_blocks = <<>> THEN <<>>
    ELSE LinesOfDim(SubSeq(element_blocks, 1, Len(element_blocks) - 1), dim)
            \o (IF element_blocks[Len(element_blocks)].entity_dim = dim
                THEN element_blocks[Len(element_blocks)].elements ELSE <<>>)

\* C16: when parse_mesh has returned Ok for a file whose node tags are a
\* permutation of 1..N, in whatever order and blocks, the node list has
\* length N, the node at index t - 1 has the coordinates the file gives
\* tag t, and the indices of every element kept are the node tags of its
\* line minus one, so that each designates the node the file meant.
C16_NodesInTagOrder ==
    (MeshParsed /\ TagsArePermutation(unwrap(msh))) =>
        LET file == unwrap(msh)
            kept == LinesOfDim(file.element_blocks, 2)
        IN  /\ Len(nodes) = Cardinality(NodePlaces(file))
            /\ \A t \in 1..Len(nodes) :
                <<Vertex(nodes, t - 1).x, Vertex(nodes, t - 1).y>> = FileCoord(file, t)
            /\ \A k \in 1..Len(elements) : \A j \in 1..3 :
                /\ k <= Len(kept)
                /\ elements[k].nodes[j] = kept[k][j + 1] - 1
                /\ <<Vertex(nodes, elements[k].nodes[j]).x,
                     Vertex(nodes, elements[k].nodes[j]).y>> = FileCoord(file, kept[k][j + 1])

\* a file of two node blocks that lists tag 3 first was parsed and two
\* elements were kept
C16_Witness_Reordered ==
    /\ MeshParsed
    /\ TagsArePermutation(unwrap(msh))
    /\ Len(unwrap(msh).node_blocks) = 2
    /\ unwrap(msh).node_blocks[1].tags[1] = 3
    /\ Len(nodes) = 4
    /\ Len(elements) = 2

RECURSIVE TriangleLines(_)
\* the element lines of the blocks of dimension 2 and of the triangle type,
\* in the order of the file
TriangleLines(element_blocks) ==
    IF element_blocks = <<>> THEN <<>>
    ELSE LET block == element_blocks[Len(element_blocks)]
         IN  TriangleLines(SubSeq(element_blocks, 1, Len(element_blocks) - 1))
                \o (IF block.entity_dim = 2 /\ block.element_type = 2
                    THEN block.elements ELSE <<>>)

\* C17 (what the specification asks for): when parse_mesh has returned Ok,
\* the elements it kept are the 2D triangles of the file, each once and in
\* the order of the file; the elements of the blocks of another dimension
\* and the 2D elements of another type are dropped.
C17_OnlyTriangles ==
    MeshParsed =>
        LET triangles == TriangleLines(unwrap(msh).element_blocks)
        IN  /\ Len(elements) = Len(triangles)
            /\ \A k \in 1..Len(elements) : k <= Len(triangles) =>
                elements[k].nodes =
                    <<triangles[k][2] - 1, triangles[k][3] - 1, triangles[k][4] - 1>>

\* parse_svg has read the document of `svg` and returned
SvgRead == is_some(svg) /\ "geometry" \in Range(trace) /\ pc # "geometry"

\* the id that classifies a region: its own, or else its parent's
ClassId(region) == IF region.id # None THEN region.id ELSE region.parent_id

\* the id, its leading white space dropped, starts with `word`
IdStartsWith(region, word) ==
    /\ ClassId(region) # None
    /\ \E k \in 1..Len(unwrap(ClassId(region))) :
        /\ unwrap(ClassId(region))[k] = word
        /\ \A j \in 1..(k - 1) : unwrap(ClassId(region))[j] = " "

\* the regions in the order parse_svg reads them
ReadOrder(doc) == SelectSeq(doc, IsPolyline) \o SelectSeq(doc, IsRect)

IsOuter(region) == IdStartsWith(region, "OUTER")
IsInner(region) == IdStartsWith(region, "INNER")

OuterCount(doc) == Cardinality({k \in 1..Len(doc) : IsOuter(doc[k])})

\* every number of the document is one
NumbersReadable(doc) ==
    \A k \in 1..Len(doc) :
        /\ doc[k].x.k # "str" /\ doc[k].y.k # "str"
        /\ doc[k].width.k # "str" /\ doc[k].height.k # "str"
        /\ is_some(doc[k].points) =>
            /\ \A j \in 1..Len(unwrap(doc[k].points)) : unwrap(doc[k].points)[j].k = "num"
            /\ Len(unwrap(doc[k].points)) % 2 = 0

VerticesOf(region) ==
    region_points(region, unwrap(model_metadata).characteristic_length_min).points

Contributions(r, c) ==
    {<<t[1], t[2], t[3], r % 2, c % 2>> :
        t \in {u \in (1..Len(elements)) \X (0..2) \X (0..2) :
                /\ elements[u[1]].nodes[u[2] + 1] = r \div 2
                /\ elements[u[1]].nodes[u[3] + 1] = c \div 2}}

\* the entry of the element stiffness matrix that a contribution names
Contribution(t) == element_stiffness_matrices[t[1]][2 * t[2] + t[4], 2 * t[3] + t[5]]

RECURSIVE SumOfContributions(_)
SumOfContributions(ts) ==
    IF ts = {} THEN 0
    ELSE LET t == CHOOSE u \in ts : TRUE
         IN  FAdd(Contribution(t), SumOfContributions(ts \ {t}))

\* C19: once assembled, K is a 2N x 2N matrix whose entry (r, c) is the sum
\* of Ke[2a+p, 2b+q] over every element, slots a, b and axes p, q with
\* 2*i_a+p = r and 2*i_b+q = c, each taken once; an entry on which nothing
\* falls is zero.
C19_AssemblySum ==
    total_stiffness_matrix # <<>> =>
        /\ DOMAIN total_stiffness_matrix =
            (0..(2 * Len(nodes) - 1)) \X (0..(2 * Len(nodes) - 1))
        /\ \A rc \in DOMAIN total_stiffness_matrix :
            total_stiffness_matrix[rc] = SumOfContributions(Contributions(rc[1], rc[2]))

\* the two triangles of the square were assembled: the entry of their shared
\* node 0 is the sum of one entry of each, and the entry between the nodes 1
\* and 3, which share no element, is zero
C19_Witness_SharedNode ==
    /\ pc = "partition"
    /\ Len(elements) = 2
    /\ \A rc \in DOMAIN total_stiffness_matrix : total_stiffness_matrix[rc] # NaN
    /\ element_stiffness_matrices[1][0, 0] # 0
    /\ element_stiffness_matrices[2][0, 0] # 0
    /\ total_stiffness_matrix[0, 0] =
        element_stiffness_matrices[1][0, 0] + element_stiffness_matrices[2][0, 0]
    /\ total_stiffness_matrix[2, 6] = 0

RECURSIVE Ascending(_)
\* the members of a set of numbers, in ascending order, numbered from 1
Ascending(S) ==
    IF S = {} THEN <<>>
    ELSE LET m == CHOOSE x \in S : \A y \in S : y <= x
         IN  Ascending(S \ {m}) \o <<m>>

\* the partitioner has run
Partitioned == sys.set

\* the DOF indices whose displacement is unknown, resp. known, when the
\* partitioner runs, in ascending order
UnknownDofs == Ascending({i \in DOMAIN sys.nodal_displacements : is_none(sys.nodal_displacements[i])})
KnownDofs == Ascending({i \in DOMAIN sys.nodal_displacements : is_some(sys.nodal_displacements[i])})

\* C20: with U the unknown-displacement DOF indices and D the
\* known-displacement DOF indices, both ascending, |U| + |D| = 2N; the
\* reduced matrix the partitioner builds has |U| rows and |U| columns, its
\* entry (r,c) being K[U_r, U_c]; and no row it writes is out of bounds.
C20_ReducedMatrix ==
    Partitioned =>
        LET U == UnknownDofs
            D == KnownDofs
        IN  /\ Len(U) + Len(D) = 2 * Len(nodes)
            /\ sys.ret = Ok
            /\ DOMAIN sys.unknown_matrix = (0..(Len(U) - 1)) \X (0..(Len(U) - 1))
            /\ \A rc \in DOMAIN sys.unknown_matrix :
                sys.unknown_matrix[rc] = total_stiffness_matrix[U[rc[1] + 1], U[rc[2] + 1]]

\* the partitioner ran on a system whose unknown indices are not the first
\* ones and do not follow one another, and whose total matrix tells its
\* rows apart
C20_Witness_ScatteredUnknowns ==
    /\ Partitioned
    /\ sys.ret = Ok
    /\ Len(UnknownDofs) >= 2
    /\ KnownDofs # <<>>
    /\ UnknownDofs[1] > 0
    /\ \E r \in 1..(Len(UnknownDofs) - 1) : UnknownDofs[r + 1] > UnknownDofs[r] + 1
    /\ \E c \in 1..Len(UnknownDofs) :
        total_stiffness_matrix[0, UnknownDofs[c]] # total_stiffness_matrix[UnknownDofs[1], UnknownDofs[c]]

RECURSIVE KnownDisplacementTerms(_, _, _)
\* the sum of K[row, D_c] * u[D_c] over the first n of the known-displacement
\* indices D
KnownDisplacementTerms(row, D, n) ==
    IF n = 0 THEN 0
    ELSE FAdd(KnownDisplacementTerms(row, D, n - 1),
              FMul(total_stiffness_matrix[row, D[n]],
                   unwrap(sys.nodal_displacements[D[n]])))

\* C21: the right-hand side handed to CG has length |U|, and its r-th entry
\* is f[U_r] minus the sum over every known-displacement index c of
\* K[U_r, c] * u[c], f[U_r] being the force prescribed at the r-th
\* unknown-displacement DOF.
C21_RightHandSide ==
    (Partitioned /\ sys.ret = Ok) =>
        LET U == UnknownDofs
            D == KnownDofs
        IN  /\ DOMAIN sys.known_matrix_summed = 0..(Len(U) - 1)
            /\ \A r \in DOMAIN sys.known_matrix_summed :
                /\ is_some(sys.nodal_forces[U[r + 1]])
                /\ sys.known_matrix_summed[r] =
                    FSub(unwrap(sys.nodal_forces[U[r + 1]]),
                         KnownDisplacementTerms(U[r + 1], D, Len(D)))

\* a right-hand side to which a prescribed force and a prescribed
\* displacement both contribute
C21_Witness_ForceAndDisplacement ==
    /\ Partitioned
    /\ sys.ret = Ok
    /\ \A r \in DOMAIN sys.known_matrix_summed : sys.known_matrix_summed[r] # NaN
    /\ \E r \in DOMAIN sys.known_matrix_summed :
        unwrap(sys.nodal_forces[UnknownDofs[r + 1]]) # 0
    /\ \E r \in DOMAIN sys.known_matrix_summed :
        KnownDisplacementTerms(UnknownDofs[r + 1], KnownDofs, Len(KnownDofs)) # 0

\* the write-back of `solve` has run
WrittenBack == "write_back" \in Range(trace)

\* the displacement, resp. force, the node records hold at DOF index i
NodeDisplacement(i) ==
    IF i % 2 = 0 THEN nodes[(i \div 2) + 1].ux ELSE nodes[(i \div 2) + 1].uy
NodeForce(i) ==
    IF i % 2 = 0 THEN nodes[(i \div 2) + 1].fx ELSE nodes[(i \div 2) + 1].fy

\* C22: after CG returns x, the k-th entry of x is in the node records at
\* the k-th unknown-displacement DOF, in ascending index order, and at no
\* other DOF: every prescribed displacement keeps its prescribed value.
C22_SolutionScatter ==
    WrittenBack =>
        LET U == UnknownDofs
            D == KnownDofs
        IN  /\ \A k \in 1..Len(U) :
                NodeDisplacement(U[k]) = Some(unwrap(cg.best_param)[k - 1])
            /\ \A k \in 1..Len(D) :
                NodeDisplacement(D[k]) = sys.nodal_displacements[D[k]]

\* the write-back ran with a solution whose entries differ, on a system with
\* a prescribed displacement of 1 among the unknown ones
C22_Witness_ScatteredSolution ==
    /\ WrittenBack
    /\ Len(UnknownDofs) >= 2
    /\ unwrap(cg.best_param)[0] # unwrap(cg.best_param)[1]
    /\ \E k \in 1..Len(KnownDofs) :
        /\ sys.nodal_displacements[KnownDofs[k]] = Some(1)
        /\ KnownDofs[k] > UnknownDofs[1]
        /\ KnownDofs[k] < UnknownDofs[Len(UnknownDofs)]

RECURSIVE ReactionSum(_, _)
\* the sum of K[i, j] * u[j] over the first n DOF indices j, u being the
\* displacements of the node records
ReactionSum(i, n) ==
    IF n = 0 THEN 0
    ELSE FAdd(ReactionSum(i, n - 1),
              FMul(total_stiffness_matrix[i, n - 1], unwrap(NodeDisplacement(n - 1))))

\* C23: for every DOF i whose force was unknown before the solve, the force
\* written back is the sum over all j of K[i,j] * u[j] with the complete
\* displacement vector; a force that was prescribed is in the node record
\* after the solve with its prescribed value.
C23_ReactionForces ==
    WrittenBack =>
        \A i \in DOMAIN sys.nodal_forces :
            IF is_none(sys.nodal_forces[i])
            THEN NodeForce(i) = Some(ReactionSum(i, 2 * Len(nodes)))
            ELSE NodeForce(i) = sys.nodal_forces[i]

\* the write-back computed a force other than zero at a DOF whose force was
\* unknown, and kept a prescribed force that the displacements alone would
\* not have given
C23_Witness_ReactionAndPrescribed ==
    /\ WrittenBack
    /\ \E i \in DOMAIN sys.nodal_forces :
        /\ is_none(sys.nodal_forces[i])
        /\ unwrap(NodeForce(i)) \notin {0, NaN}
    /\ \E i \in DOMAIN sys.nodal_forces :
        /\ sys.nodal_forces[i] = Some(1)
        /\ ReactionSum(i, 2 * Len(nodes)) \notin {1, NaN}

\* the first pieces of the lines that begin with a dollar sign
DollarPieces == {"$End", "$Node", "$Elements", "$Entities", "$MeshFormat", "$PhysicalNames"}

\* line k of the file the reader reads names a section or the end of one
IsSectionLine(k) ==
    /\ reader.file[k].k = "text"
    /\ reader.file[k].v # <<>>
    /\ reader.file[k].v[1] \in DollarPieces

IsEndLine(k) == IsSectionLine(k) /\ reader.file[k].v[1] = "$End"

\* the index of the line that opened the section line k lies in: the last
\* section line before k, or 0 when there is none or it is an $End line
Opener(k) ==
    LET marks == {m \in 1..(k - 1) : IsSectionLine(m)}
    IN  IF marks = {} THEN 0
        ELSE LET m == CHOOSE x \in marks : \A y \in marks : y <= x
             IN  IF IsEndLine(m) THEN 0 ELSE m

\* line k lies inside a section of the given name, after the first line of
\* the section
InBodyOf(k, name) ==
    /\ Opener(k) # 0
    /\ reader.file[Opener(k)].v = name
    /\ k > Opener(k) + 1

\* line k is the first line of a section of the given name
IsHeaderOf(k, name) ==
    /\ Opener(k) # 0
    /\ reader.file[Opener(k)].v = name
    /\ k = Opener(k) + 1
    /\ ~IsSectionLine(k)

\* C24: in the .msh reader a line beginning with $End returns the reader to
\* its idle state and resets the header flag; nodes are created only from
\* lines inside a $Nodes section and elements only from lines inside an
\* $Elements section, the first line of such a section being consumed as
\* its header; the lines of $Entities and of every section the reader does
\* not know create nothing.
C24_ReaderSections ==
    reader.open =>
        /\ (reader.turn > 0 /\ IsEndLine(reader.turn)) =>
            /\ reader.parser_state = "Limbo"
            /\ ~reader.parsed_section_metadata
        /\ Len(reader.node_lines) = Len(reader.nodes_unordered)
        /\ Len(reader.element_lines) = Len(reader.elements)
        /\ \A i \in 1..Len(reader.node_lines) :
            InBodyOf(reader.node_lines[i], <<"$Node", "s">>)
        /\ \A i \in 1..Len(reader.element_lines) :
            InBodyOf(reader.element_lines[i], <<"$Elements">>)
        /\ (reader.turn > 0 /\ (\/ IsHeaderOf(reader.turn, <<"$Node", "s">>)
                                \/ IsHeaderOf(reader.turn, <<"$Elements">>))) =>
            /\ reader.parsed_section_metadata
            /\ reader.pos = reader.turn

\* the reader went through a file that has, besides $Nodes and $Elements,
\* $Entities and a section it does not know, both with lines that read as
\* entity blocks, and kept the four nodes and two triangles of the file
C24_Witness_WholeFile ==
    /\ reader.open
    /\ reader.done
    /\ pc # "exit"
    /\ \E k \in 1..Len(reader.file) :
        IsSectionLine(k) /\ reader.file[k].v = <<"$PhysicalNames">>
    /\ \E k \in 1..Len(reader.file) :
        IsSectionLine(k) /\ reader.file[k].v = <<"$Entities">>
    /\ Len(nodes) = 4
    /\ Len(reader.nodes_unordered) = 4
    /\ Len(reader.elements) = 2

\* node i is as the ingest made it: no displacement, both forces zero
AsIngested(i) == nodes[i] = NewNode(<<nodes[i].x, nodes[i].y>>)

\* apply_boundary_conditions has returned an error or has panicked
RulesRejected ==
    /\ pc = "exit"
    /\ trace[Len(trace)] = "apply_boundary_conditions"

\* C26: boundary-rule validation is all-or-nothing: when
\* apply_boundary_conditions fails on a rule, wherever the rule stands in
\* the document, no node's ux, uy, fx or fy has been modified; a node is
\* stamped only once every rule has been read and validated.
C26_AllOrNothing ==
    /\ RulesRejected => \A i \in 1..Len(nodes) : AsIngested(i)
    /\ (\E i \in 1..Len(nodes) : ~AsIngested(i)) =>
        /\ pc = "kernels"
        /\ stage_ret = Ok

\* the first rule was valid and holds a node whose fields it would change;
\* the second was rejected with an Input error
C26_Witness_SecondRuleRejected ==
    /\ RulesRejected
    /\ result.tag = "err"
    /\ result.kind = "Input"
    /\ Len(rules) = 1
    /\ \E i \in 1..Len(nodes) :
        /\ RulesOver(nodes[i]) # {}
        /\ stamp(nodes[i], rules[1]) # nodes[i]

\* the targets of a node, resp. of a rule, as one value
TargetsOfNode(node) == <<node.ux, node.uy, node.fx, node.fy>>
TargetsOfRule(rule) ==
    <<rule.target.ux, rule.target.uy, rule.target.fx, rule.target.fy>>

\* rule k holds the node and no rule after it in the document does
IsLastMatch(node, k) ==
    /\ StrictlyInside(node, rules[k].region)
    /\ \A j \in (k + 1)..Len(rules) : ~StrictlyInside(node, rules[j].region)

\* C27: after stamping, the four targets of a node that several rules hold
\* are together those of the last such rule in document order, none of them
\* from another rule; a node that no rule holds keeps the ingest default,
\* ux and uy absent, fx = fy = 0.
C27_LastRuleWins ==
    pc = "kernels" =>
        \A i \in 1..Len(nodes) :
            /\ \A k \in 1..Len(rules) :
                IsLastMatch(nodes[i], k) => TargetsOfNode(nodes[i]) = TargetsOfRule(rules[k])
            /\ (\A k \in 1..Len(rules) : ~StrictlyInside(nodes[i], rules[k].region)) =>
                TargetsOfNode(nodes[i]) = <<None, None, Some(0), Some(0)>>

\* two rules hold a node and differ in each of its four targets; another
\* node is held by the first of them only
C27_Witness_TwoRulesOneNode ==
    /\ pc = "kernels"
    /\ Len(rules) = 2
    /\ \E i \in 1..Len(nodes) :
        /\ RulesOver(nodes[i]) = {1, 2}
        /\ \A f \in 1..4 : TargetsOfRule(rules[1])[f] # TargetsOfRule(rules[2])[f]
    /\ \E i \in 1..Len(nodes) : RulesOver(nodes[i]) = {1}

\* build_geo has written geom.geo
GeoWritten == is_some(geo)

GeoFile == unwrap(geo)

\* C25: for any number of holes the .geo file defines line loop 1 for the
\* outer polygon and the loops 2.. for the holes, and its Plane Surface
\* refers to every loop exactly once, the outer loop first and the loops of
\* the holes after it.
C25_PlaneSurfaceOuterFirst ==
    GeoWritten =>
        /\ \A c \in 1..Len(GeoFile.loops) : GeoFile.loops[c].id = c
        /\ Len(GeoFile.surface) = Len(GeoFile.loops)
        /\ \A c \in 1..Len(GeoFile.loops) :
            Cardinality({i \in 1..Len(GeoFile.surface) : GeoFile.surface[i] = c}) = 1
        /\ GeoFile.surface[1] = 1

\* the statements of a kind written for polygon c (0-based), in file order
PolygonPart(statements, c) ==
    SelectSeq(statements, LAMBDA s : s.polygon = c)

Ids(statements) == [i \in 1..Len(statements) |-> statements[i].id]

AllDifferent(s) == \A i, j \in 1..Len(s) : i # j => s[i] # s[j]

\* the lines go from each of the points to the next and from the last point
\* back to the first
ClosedCycle(lines, points) ==
    /\ Len(lines) = Len(points)
    /\ \A k \in 1..Len(lines) :
        /\ lines[k].from = points[k].id
        /\ lines[k].to = points[(k % Len(points)) + 1].id

\* C28: in the .geo file the point identifiers and the line identifiers are
\* unique across the outer polygon and the holes, and the line loop of
\* polygon i lists exactly the lines defined for polygon i, which form one
\* closed cycle through each of the points of that polygon once, the last
\* line returning to the first point of the polygon itself.
C28_GeoIdentifiers ==
    GeoWritten =>
        /\ AllDifferent(Ids(GeoFile.points))
        /\ AllDifferent(Ids(GeoFile.lines))
        /\ \A c \in 1..Len(GeoFile.loops) :
            /\ GeoFile.loops[c].lines = Ids(PolygonPart(GeoFile.lines, c - 1))
            /\ ClosedCycle(PolygonPart(GeoFile.lines, c - 1),
                           PolygonPart(GeoFile.points, c - 1))

====
